---------------------------- MODULE Spec2Model ----------------------------
(***************************************************************************)
(* Coordination and recovery model of the finab scraping pipeline:         *)
(*   - the email work queue (documents with an emailstatus), the claim     *)
(*     protocol and the stale-claim sweep under two racing CLI runs        *)
(*                                                   (SpecStore)           *)
(*   - one CLI run with its signals and the API email job on the same      *)
(*     collection                                    (SpecRun)             *)
(*   - the task registry of the HTTP API: the postcode, Google-Maps and    *)
(*     email jobs, their chaining and their terminate endpoints            *)
(*                                                   (SpecJobs)            *)
(*   - the per-domain circuit breaker and harvest_site_emails              *)
(*                                                   (SpecBreaker)         *)
(* Granularity: one step per store operation, per checkpoint of a loop     *)
(* (the flag test together with the submit or claim it guards) and per     *)
(* blocking call of a worker.                                              *)
(***************************************************************************)
EXTENDS Integers, Sequences, FiniteSets, TLC

\* ------------------------------------------------------------------ bounds
NItems == 3
MaxTime == 2
StaleAge == 1
BatchSize == 2
MaxSites == 1
ResetTimeout == 1
MaxHarvests == 3
MaxCalls == 5
NIdents == 2
MaxUnits == 2
NSubs == 2
MaxClaims == 2
MaxPage == 3

Items == 1..NItems
Pools == {"p1", "p2"}

\* ------------------------------------------------------------------ state
VARIABLES
    \* the work queue store (one collection)
    emailstatus,            \* [Items -> status string]
    processing_started_at,  \* [Items -> {} or {t}]: the field, when present
    recovery_note,          \* [Items -> BOOLEAN]: the field is present
    website,                \* [Items -> "site" | "" | "N/A"]
    now,                    \* the clock read by datetime.now(UTC)
    \* one CLI pool run per element of Pools (email_scraper/main.py)
    shutdown_flag,          \* [Pools -> BOOLEAN]
    pc,                     \* [Pools -> position of main()]
    max_sites,              \* [Pools -> 0..MaxSites]: --max-sites
    total_processed,        \* [Pools -> Nat]
    pending_records,        \* [Pools -> SUBSET Items]: candidates still to mark
    processing_records,     \* [Pools -> Seq(Items)]: result of the claim call
    records_batch,          \* [Pools -> Seq(Items)]: records not yet submitted
    futures,                \* [Pools -> [Items -> future state]]
    run_stats,              \* [Pools -> counters]
    \* history (not program state): who claimed and who processed what
    claimedBy,              \* [Items -> Seq(claimers)]: the callers mark returned True to
    refused,                \* [Items -> SUBSET claimers]: the callers mark returned False to
    handedTo,               \* [Items -> SUBSET jobs]: passed to process_business_record
    recoveries,             \* [Items -> Nat]: times a sweep moved the record to pending
    \* the API email job (flask_app.py), task id "ES"
    es_task,                \* es_task_data[task_id]; status "none": no such key
    es_threads,             \* task_id in es_threads
    es_pc,                  \* position of run_email_scrape_task
    es_pending,             \* pending_records not yet submitted (a sequence)
    es_order,               \* futures, in submission order, not yet collected
    es_futures,             \* [Items -> future state]
    es_observed,            \* history: the submit loop has read the flag as set
    \* the postcode and Google-Maps jobs of flask_app.py, task ids "PS" and "GM"
    ps_task,                \* ps_task_data[task_id]; status "none": no such key
    ps_pc,                  \* position of run_postcode_scrape_task
    ps_threads,             \* task_id in ps_threads
    ps_reply,               \* the response to the last POST /api/terminatePS
    ps_observed,            \* history: the wait loop has read the flag as set
    gm_task,                \* gm_task_data[task_id]
    gm_pc,                  \* position of run_gmaps_scrape_task
    gm_threads,             \* task_id in gm_threads
    gm_reply,               \* the response to the last POST /api/terminateGM
    gm_total,               \* run_scraper: total > 0
    gm_success,             \* the value run_scraper returns
    gm_observed,            \* history: termination_check has read the flag as set
    \* the circuit breaker (one per process) and the harvest_site_emails calls
    failure_counts,         \* [Domains -> Nat]; 0: the key is absent
    circuit_open,           \* SUBSET Domains
    last_failure_time,      \* [Domains -> {} or {t}]: the value, when the key is present
    unit,                   \* [Units -> the locals of one harvest_site_emails call]
    harvests,               \* calls of harvest_site_emails made so far
    cb_fails,               \* history: record_failure calls since the last reset
    cb_last,                \* history: time of the last record_failure call
    \* pool threads inside the methods of the shared breaker, statement by statement
    th,                     \* [Threads -> the method, its position and its locals]
    calls,                  \* breaker method calls made so far by the threads
    opened,                 \* history: [Domains -> OPENED transitions since the last closing]
    raised,                 \* history: a breaker method call ended with KeyError
    \* recover_stale_processing_records calls in progress, document by document
    sweep,                  \* [Sweepers -> position, cutoff_time, documents left, modified_count]
    \* the registry of email jobs keyed by task id, and the worker threads of the jobs
    es_task_data,           \* [TaskIds -> the record; status "none": no such key]
    es_worker,              \* [Workers -> position and task_id argument of run_email_scrape_task]
    \* the subsector queue of the Google-Maps scraper and its process_subsectors calls
    q_doc,                  \* [Subs -> the fields scrapedsuccessfully and processing]
    q_worker,               \* [GWorkers -> position, mode, doc, idx, termination_check()]
    q_claims,               \* history: [GWorkers -> [Subs -> times doc_iter yielded the document]]
    \* the page counter of a postcode task and its worker threads
    page_lock,              \* "free" or the worker inside "with page_lock"
    next_page_num,          \* task['next_page_num'], the global next_page_num of the CLI
    stop_scraping,          \* task['stop_scraping']
    pg_task,                \* [kind: "none", "api" or "cli"; should_terminate]
    pg_worker,              \* [PgWorkers -> position and the local variable page]
    pg_fetched,             \* history: [PgWorkers -> pages passed to fetch_postcodes]
    pg_handed,              \* history: the values get_next_page_num() has returned
    \* the setup_mongodb calls of the two connection layers
    conn                    \* [Layers -> position, attempt, and the history of time.sleep arguments]

storeVars == <<emailstatus, processing_started_at, recovery_note, website, now>>
poolVars == <<shutdown_flag, pc, max_sites, total_processed, pending_records,
              processing_records, records_batch, futures, run_stats>>
esVars == <<es_task, es_threads, es_pc, es_pending, es_order, es_futures, es_observed>>
psVars == <<ps_task, ps_pc, ps_threads, ps_reply, ps_observed>>
gmVars == <<gm_task, gm_pc, gm_threads, gm_reply, gm_total, gm_success, gm_observed>>
jobVars == <<psVars, gmVars>>
breakerVars == <<failure_counts, circuit_open, last_failure_time, cb_fails, cb_last>>
raceVars == <<th, calls, opened, raised>>
idVars == <<es_task_data, es_worker>>
queueVars == <<q_doc, q_worker, q_claims>>
pageVars == <<page_lock, next_page_num, stop_scraping, pg_task, pg_worker, pg_fetched, pg_handed>>
connVars == <<conn>>
extVars == <<idVars, queueVars, pageVars, connVars>>
sideVars == <<raceVars, sweep, extVars>>
cbVars == <<breakerVars, unit, harvests, sideVars>>
histVars == <<claimedBy, refused, handedTo, recoveries>>
\* what the steps of a CLI pool, and of the API email job, leave alone
offPool == <<esVars, jobVars, cbVars>>
offEs == <<poolVars, jobVars, cbVars>>

\* ------------------------------------------------------------------ store
\* one status of each class the aggregation loops tell apart
Terminal == {"found", "checked_no_email", "failed_domain_unreachable", "skipped_invalid_url"}

\* query = {"website": {"$exists": True, "$nin": ["", None, "N/A"]}, "emailstatus": "pending"}
PendingQuery(st, i) == website[i] \notin {"", "N/A"} /\ st[i] = "pending"

\* collection.find(query).limit(n): some n of the matching documents (all when fewer)
FindLimit(st, n) ==
    LET match == {i \in Items : PendingQuery(st, i)}
    IN  IF n = 0 \/ Cardinality(match) <= n
        THEN {match}
        ELSE {S \in SUBSET match : Cardinality(S) = n}

MarkFilterNoStatus(i) == TRUE
\* the filter of find_one_and_update: {"_id": record_id, "emailstatus": "pending"}
MarkFilter(i) == emailstatus[i] = "pending"

\* mark_record_as_processing(collection, i) called by claimer c; ok is its result
mark_record_as_processing(c, i, ok) ==
    /\ ok = MarkFilter(i)
    /\ IF ok
       THEN /\ emailstatus' = [emailstatus EXCEPT ![i] = "processing"]
            /\ processing_started_at' = [processing_started_at EXCEPT ![i] = {now}]
            /\ claimedBy' = [claimedBy EXCEPT ![i] = Append(@, c)]
            /\ UNCHANGED refused
       ELSE /\ refused' = [refused EXCEPT ![i] = @ \cup {c}]
            /\ UNCHANGED <<emailstatus, processing_started_at, claimedBy>>
    /\ UNCHANGED <<recovery_note, website>>

\* update_record_with_email_results(collection, i, status, emails, error):
\* update_one({"_id": i}, {"$set": {"emailstatus": status, ...}})
update_record_with_email_results(i, status) ==
    /\ emailstatus' = [emailstatus EXCEPT ![i] = status]
    /\ UNCHANGED <<processing_started_at, recovery_note, website>>

\* the filter of update_many on one document: {"emailstatus": "processing",
\* "processing_started_at": {"$lt": cutoff_time}}; a document without the field
\* does not match
StaleMatchNoStatus(st, started, i, cutoff) == \E t \in started[i] : t < cutoff
StaleMatch(st, started, i, cutoff) ==
    /\ st[i] = "processing"
    /\ \E t \in started[i] : t < cutoff

\* cutoff_time = datetime.now(UTC) - timedelta(seconds=max_processing_time)
cutoff_time == now - StaleAge

StaleFilter(i) == StaleMatch(emailstatus, processing_started_at, i, cutoff_time)

SweepStoreKeepStamp(st, started, note, cutoff) ==
    LET stale == {i \in Items : StaleMatchNoStatus(st, started, i, cutoff)}
    IN  [emailstatus |-> [i \in Items |-> IF i \in stale THEN "pending" ELSE st[i]],
         processing_started_at |-> started,
         recovery_note |-> [i \in Items |-> (i \in stale) \/ note[i]],
         count |-> Cardinality(stale)]

\* the documents update_many leaves, and result.modified_count, for a
\* collection with the fields st, started and note
SweepStore(st, started, note, cutoff) ==
    LET stale == {i \in Items : StaleMatch(st, started, i, cutoff)}
    IN  [emailstatus |-> [i \in Items |-> IF i \in stale THEN "pending" ELSE st[i]],
         processing_started_at |-> [i \in Items |-> IF i \in stale THEN {} ELSE started[i]],
         recovery_note |-> [i \in Items |-> (i \in stale) \/ note[i]],
         count |-> Cardinality(stale)]

\* recover_stale_processing_records(collection, max_processing_time)
recover_stale_processing_records ==
    LET r == SweepStore(emailstatus, processing_started_at, recovery_note, cutoff_time)
    IN  /\ emailstatus' = r.emailstatus
        /\ processing_started_at' = r.processing_started_at
        /\ recovery_note' = r.recovery_note
        /\ recoveries' = [i \in Items |-> IF StaleFilter(i) THEN recoveries[i] + 1
                                                           ELSE recoveries[i]]
        /\ UNCHANGED website

\* ------------------------------------------------------------------ sweeps, document by document
\* update_many is atomic for each document and not for the collection: the
\* server applies the filter and the update to one document at a time, and
\* other writes run between two documents. cutoff_time is computed once, before
\* the call (line 314).
Sweepers == {"w1", "w2"}
IdleSweep == [pc |-> "idle", cutoff |-> 0, todo |-> {}, count |-> 0]

offSweep == <<now, website, poolVars, esVars, jobVars, breakerVars, unit, harvests, raceVars,
              claimedBy, refused, handedTo, extVars>>

\* lines 310-314: the call starts and computes cutoff_time
SweepStart(w) ==
    /\ sweep[w].pc = "idle"
    /\ sweep' = [sweep EXCEPT ![w] = [pc |-> "update", cutoff |-> cutoff_time,
                                       todo |-> Items, count |-> 0]]
    /\ UNCHANGED <<offSweep, emailstatus, processing_started_at, recovery_note, recoveries>>

\* lines 317-331: update_many reaches document i
SweepDoc(w, i) ==
    /\ sweep[w].pc = "update"
    /\ i \in sweep[w].todo
    /\ IF StaleMatch(emailstatus, processing_started_at, i, sweep[w].cutoff)
       THEN /\ emailstatus' = [emailstatus EXCEPT ![i] = "pending"]
            /\ processing_started_at' = [processing_started_at EXCEPT ![i] = {}]
            /\ recovery_note' = [recovery_note EXCEPT ![i] = TRUE]
            /\ recoveries' = [recoveries EXCEPT ![i] = @ + 1]
            /\ sweep' = [sweep EXCEPT ![w].todo = @ \ {i}, ![w].count = @ + 1]
       ELSE /\ sweep' = [sweep EXCEPT ![w].todo = @ \ {i}]
            /\ UNCHANGED <<emailstatus, processing_started_at, recovery_note, recoveries>>
    /\ UNCHANGED offSweep

\* lines 333-337: count = result.modified_count; return count
SweepReturn(w) ==
    /\ sweep[w].pc = "update"
    /\ sweep[w].todo = {}
    /\ sweep' = [sweep EXCEPT ![w].pc = "done"]
    /\ UNCHANGED <<offSweep, emailstatus, processing_started_at, recovery_note, recoveries>>

\* ------------------------------------------------------------------ CLI pool
\* email_scraper/main.py: main() and process_batch(), one run per p \in Pools.
\* pc: "start" -> "loop" -> "marking" -> "submit" -> "await" -> "loop" ... -> "done"
NoFutures == [i \in Items |-> "none"]
ZeroStats == [processed |-> 0, found |-> 0, checked_no_email |-> 0, failed |-> 0, skipped |-> 0]
Outcomes == Terminal \cup {"skipped_shutdown"}

\* what future.result() gives: a status, or the exception that escaped the unit
Results == Outcomes \cup {"exception"}

AggregateSkippedUncounted(stats, res_status) ==
    LET s1 == [stats EXCEPT !.processed = @ + 1]
    IN  IF res_status = "exception" THEN [s1 EXCEPT !.failed = @ + 1]
        ELSE IF res_status = "found" THEN [s1 EXCEPT !.found = @ + 1]
        ELSE IF res_status = "checked_no_email" THEN [s1 EXCEPT !.checked_no_email = @ + 1]
        ELSE IF res_status \in {"failed_domain_unreachable"} THEN [s1 EXCEPT !.failed = @ + 1]
        ELSE s1

AggregateLoseException(stats, res_status) ==
    LET s1 == [stats EXCEPT !.processed = @ + 1]
    IN  IF res_status = "exception" THEN stats
        ELSE IF res_status = "found" THEN [s1 EXCEPT !.found = @ + 1]
        ELSE IF res_status = "checked_no_email" THEN [s1 EXCEPT !.checked_no_email = @ + 1]
        ELSE IF res_status \in {"failed_domain_unreachable"} THEN [s1 EXCEPT !.failed = @ + 1]
        ELSE IF res_status \in {"skipped_invalid_url", "skipped_shutdown"}
             THEN [s1 EXCEPT !.skipped = @ + 1]
        ELSE s1

\* the status branches of the aggregation loop (main.py 107-126, flask_app.py 847-857)
\* and its "except Exception" (main.py 124-126, flask_app.py 865-868)
Aggregate(stats, res_status) ==
    LET s1 == [stats EXCEPT !.processed = @ + 1]
    IN  IF res_status = "exception" THEN [s1 EXCEPT !.failed = @ + 1]
        ELSE IF res_status = "found" THEN [s1 EXCEPT !.found = @ + 1]
        ELSE IF res_status = "checked_no_email" THEN [s1 EXCEPT !.checked_no_email = @ + 1]
        ELSE IF res_status \in {"failed_domain_unreachable"} THEN [s1 EXCEPT !.failed = @ + 1]
        ELSE IF res_status \in {"skipped_invalid_url", "skipped_shutdown"}
             THEN [s1 EXCEPT !.skipped = @ + 1]
        ELSE s1

\* SIGINT/SIGTERM: signal_handler sets the flag
signal_handler(p) ==
    /\ pc[p] # "done"
    /\ ~shutdown_flag[p]
    /\ shutdown_flag' = [shutdown_flag EXCEPT ![p] = TRUE]
    /\ UNCHANGED <<storeVars, pc, max_sites, total_processed, pending_records,
                   processing_records, records_batch, futures, run_stats,
                   claimedBy, refused, handedTo, recoveries, offPool>>

\* main(): optional --recover-stale sweep, then the initial pending_scrape check
MainStart(p) ==
    /\ pc[p] = "start"
    /\ \E recover_stale \in BOOLEAN :
          IF recover_stale
          THEN /\ recover_stale_processing_records
               /\ pc' = [pc EXCEPT ![p] =
                      IF \E i \in Items : PendingQuery(emailstatus', i) THEN "loop" ELSE "done"]
               /\ UNCHANGED now
          ELSE /\ pc' = [pc EXCEPT ![p] =
                      IF \E i \in Items : PendingQuery(emailstatus, i) THEN "loop" ELSE "done"]
               /\ UNCHANGED <<storeVars, recoveries>>
    /\ UNCHANGED <<shutdown_flag, max_sites, total_processed, pending_records,
                   processing_records, records_batch, futures, run_stats,
                   claimedBy, refused, handedTo, offPool>>

\* the while test of main() and the find of get_pending_records_atomic
current_batch_size(p) ==
    LET processing_limit == max_sites[p]
        remaining_limit == IF processing_limit > 0 THEN processing_limit - total_processed[p] ELSE 0
    IN  IF remaining_limit > 0 THEN remaining_limit ELSE BatchSize

actual_batch_size_no_limit(limit, batch_size) == batch_size
\* actual_batch_size = min(batch_size, limit) if limit > 0 else batch_size
actual_batch_size(limit, batch_size) ==
    IF limit > 0 THEN (IF batch_size < limit THEN batch_size ELSE limit) ELSE batch_size

LoopClaim(p) ==
    /\ pc[p] = "loop"
    /\ IF shutdown_flag[p]
       THEN /\ pc' = [pc EXCEPT ![p] = "done"]
            /\ UNCHANGED pending_records
       ELSE /\ \E S \in FindLimit(emailstatus, actual_batch_size(current_batch_size(p), BatchSize)) :
                 pending_records' = [pending_records EXCEPT ![p] = S]
            /\ pc' = [pc EXCEPT ![p] = "marking"]
    /\ processing_records' = [processing_records EXCEPT ![p] = <<>>]
    /\ UNCHANGED <<storeVars, shutdown_flag, max_sites, total_processed, records_batch,
                   futures, run_stats, claimedBy, refused, handedTo, recoveries, offPool>>

Min(S) == CHOOSE x \in S : \A y \in S : x <= y

\* one iteration of "for record in pending_records: if mark_record_as_processing(...)"
MarkNext(p) ==
    /\ pc[p] = "marking"
    /\ pending_records[p] # {}
    /\ LET i == Min(pending_records[p])
       IN  /\ \E ok \in BOOLEAN :
                 /\ mark_record_as_processing(p, i, ok)
                 /\ processing_records' = [processing_records EXCEPT ![p] =
                        IF ok THEN Append(@, i) ELSE @]
           /\ pending_records' = [pending_records EXCEPT ![p] = @ \ {i}]
    /\ UNCHANGED <<now, shutdown_flag, pc, max_sites, total_processed, records_batch,
                   futures, run_stats, handedTo, recoveries, offPool>>

\* the claim call returns; main() tests num_to_process and enters process_batch,
\* whose first test is "if not records_batch or shutdown_flag: return"
ClaimReturn(p) ==
    /\ pc[p] = "marking"
    /\ pending_records[p] = {}
    /\ LET n == Len(processing_records[p])
       IN  IF n = 0
           THEN /\ pc' = [pc EXCEPT ![p] = "done"]
                /\ UNCHANGED <<total_processed, records_batch>>
           ELSE /\ total_processed' = [total_processed EXCEPT ![p] = @ + n]
                /\ IF shutdown_flag[p]
                   THEN /\ pc' = [pc EXCEPT ![p] = "await"]
                        /\ UNCHANGED records_batch
                   ELSE /\ pc' = [pc EXCEPT ![p] = "submit"]
                        /\ records_batch' = [records_batch EXCEPT ![p] = processing_records[p]]
    /\ UNCHANGED <<storeVars, shutdown_flag, max_sites, pending_records, processing_records,
                   futures, run_stats, claimedBy, refused, handedTo, recoveries, offPool>>

SubmitBreakNever(p) == FALSE
\* "if shutdown_flag: break" at the head of the submit loop (main.py 85-87)
SubmitBreak(p) == shutdown_flag[p]

\* one iteration of the submit loop of process_batch (main.py 84-98)
SubmitNext(p) ==
    /\ pc[p] = "submit"
    /\ IF SubmitBreak(p) \/ records_batch[p] = <<>>
       THEN /\ pc' = [pc EXCEPT ![p] = "await"]
            /\ records_batch' = [records_batch EXCEPT ![p] = <<>>]
            /\ UNCHANGED <<futures, handedTo>>
       ELSE LET record == Head(records_batch[p])
            IN  /\ futures' = [futures EXCEPT ![p][record] =
                       IF shutdown_flag[p] THEN "run_skip" ELSE "run"]
                /\ handedTo' = [handedTo EXCEPT ![record] = @ \cup {p}]
                /\ records_batch' = [records_batch EXCEPT ![p] = Tail(@)]
                /\ UNCHANGED pc
    /\ UNCHANGED <<storeVars, shutdown_flag, max_sites, total_processed, pending_records,
                   processing_records, run_stats, claimedBy, refused, recoveries, offPool>>

\* process_business_record(record, collection, headless, debug, shutdown_flag):
\* flag is the value passed at submit time, res the status it returns
process_business_record(i, flag, res) ==
    IF flag
    THEN /\ res = "skipped_shutdown"
         /\ UNCHANGED <<emailstatus, processing_started_at, recovery_note, website>>
    ELSE /\ res \in Terminal
         /\ update_record_with_email_results(i, res)

\* a pool thread runs one submitted unit
UnitRun(p, i) ==
    /\ futures[p][i] \in {"run", "run_skip"}
    /\ \E res \in Outcomes :
          /\ process_business_record(i, futures[p][i] = "run_skip", res)
          /\ futures' = [futures EXCEPT ![p][i] = res]
    /\ UNCHANGED <<now, shutdown_flag, pc, max_sites, total_processed, pending_records,
                   processing_records, records_batch, run_stats, offPool,
                   claimedBy, refused, handedTo, recoveries>>

\* a pool thread runs one submitted unit and an exception escapes
\* process_business_record: raised before its try block (lines 283-293), with
\* the record left as it is, or raised inside the except handler (318-320),
\* with the finally clause writing a failed status first
UnitRaise(p, i) ==
    /\ futures[p][i] = "run"
    /\ \E written \in BOOLEAN :
          IF written
          THEN update_record_with_email_results(i, "failed_domain_unreachable")
          ELSE UNCHANGED <<emailstatus, processing_started_at, recovery_note, website>>
    /\ futures' = [futures EXCEPT ![p][i] = "exception"]
    /\ UNCHANGED <<now, shutdown_flag, pc, max_sites, total_processed, pending_records,
                   processing_records, records_batch, run_stats, offPool,
                   claimedBy, refused, handedTo, recoveries>>

\* one iteration of "for future_item in as_completed(active_futures)"
AggregateNext(p) ==
    /\ pc[p] = "await"
    /\ \E i \in Items :
          /\ futures[p][i] \in Results
          /\ run_stats' = [run_stats EXCEPT ![p] = Aggregate(@, futures[p][i])]
          /\ futures' = [futures EXCEPT ![p][i] = "agg"]
    /\ UNCHANGED <<storeVars, shutdown_flag, pc, max_sites, total_processed, pending_records,
                   processing_records, records_batch, offPool,
                   claimedBy, refused, handedTo, recoveries>>

AllCollectedNoWait(p) == TRUE
\* "for future_item in as_completed(active_futures)" has passed every future
\* and the executor's with-block has joined its threads
AllCollected(p) == \A i \in Items : futures[p][i] \in {"none", "agg"}

BatchDoneNoLimitTest(p) ==
    /\ pc[p] = "await"
    /\ AllCollected(p)
    /\ futures' = [futures EXCEPT ![p] = NoFutures]
    /\ pc' = [pc EXCEPT ![p] = "loop"]
    /\ UNCHANGED <<storeVars, shutdown_flag, max_sites, total_processed, pending_records,
                   processing_records, records_batch, run_stats, offPool,
                   claimedBy, refused, handedTo, recoveries>>

\* process_batch returns (every future collected); main() tests the limit
BatchDone(p) ==
    /\ pc[p] = "await"
    /\ AllCollected(p)
    /\ futures' = [futures EXCEPT ![p] = NoFutures]
    /\ pc' = [pc EXCEPT ![p] =
           IF max_sites[p] > 0 /\ total_processed[p] >= max_sites[p] THEN "done" ELSE "loop"]
    /\ UNCHANGED <<storeVars, shutdown_flag, max_sites, total_processed, pending_records,
                   processing_records, records_batch, run_stats, offPool,
                   claimedBy, refused, handedTo, recoveries>>

\* time passes
Tick ==
    /\ now < MaxTime
    /\ now' = now + 1
    /\ UNCHANGED <<emailstatus, processing_started_at, recovery_note, website, poolVars, offPool,
                   claimedBy, refused, handedTo, recoveries>>

\* a sweep invoked on demand
Recover ==
    /\ recover_stale_processing_records
    /\ UNCHANGED <<now, poolVars, offPool, claimedBy, refused, handedTo>>

\* ------------------------------------------------------------------ API email job
\* flask_app.py: start_email_scrape, terminate_email_scraper_task, run_email_scrape_task
TerminalJob == {"completed", "failed", "terminated"}
NoTask == [status |-> "none", should_terminate |-> FALSE, stats |-> ZeroStats,
           end_time |-> FALSE, error |-> FALSE, max_sites |-> 0]
NewEsTask(ms) == [status |-> "starting", should_terminate |-> FALSE, stats |-> ZeroStats,
                  end_time |-> FALSE, error |-> FALSE, max_sites |-> ms]

RECURSIVE SetToSeq(_)
SetToSeq(S) == IF S = {} THEN <<>> ELSE <<Min(S)>> \o SetToSeq(S \ {Min(S)})

\* get_pending_records(collection, limit): find(query), limited when limit > 0; no claim
get_pending_records(limit) == {SetToSeq(S) : S \in FindLimit(emailstatus, limit)}

\* GET /api/scrapeES: the endpoint creates the record and starts the thread
start_email_scrape ==
    /\ es_task.status = "none"
    /\ \E ms \in 0..MaxSites :
          /\ \E recs \in get_pending_records(ms) : Len(recs) > 0
          /\ es_task' = NewEsTask(ms)
    /\ es_pc' = "spawned"
    /\ es_threads' = TRUE
    /\ UNCHANGED <<storeVars, offEs, es_pending, es_order, es_futures,
                   claimedBy, refused, handedTo, recoveries, es_observed>>

\* POST /api/terminateES/<task_id>
terminate_email_scraper_task ==
    /\ es_task.status \notin {"none"} \cup TerminalJob
    /\ es_task' = [es_task EXCEPT !.should_terminate = TRUE,
                                  !.status = "terminated",
                                  !.end_time = TRUE]
    /\ UNCHANGED <<storeVars, offEs, es_threads, es_pc, es_pending, es_order, es_futures,
                   claimedBy, refused, handedTo, recoveries, es_observed>>

\* run_email_scrape_task, line 785
ESSetRunning ==
    /\ es_pc = "spawned"
    /\ es_task' = [es_task EXCEPT !.status = "running"]
    /\ es_pc' = "connect"
    /\ UNCHANGED <<storeVars, offEs, es_threads, es_pending, es_order, es_futures,
                   claimedBy, refused, handedTo, recoveries, es_observed>>

\* lines 787-810: setup_mongodb, get_pending_records; the finally clause on return
ESConnect ==
    /\ es_pc = "connect"
    /\ \E connected \in BOOLEAN :
          IF ~connected
          THEN /\ es_task' = [es_task EXCEPT !.status = "failed", !.error = TRUE]
               /\ es_pc' = "exited"
               /\ es_threads' = FALSE
               /\ UNCHANGED es_pending
          ELSE \E recs \in get_pending_records(es_task.max_sites) :
                 IF Len(recs) = 0
                 THEN /\ es_task' = [es_task EXCEPT !.status = "completed", !.end_time = TRUE]
                      /\ es_pc' = "exited"
                      /\ es_threads' = FALSE
                      /\ UNCHANGED es_pending
                 ELSE /\ es_pending' = recs
                      /\ es_pc' = "submit"
                      /\ UNCHANGED <<es_task, es_threads>>
    /\ UNCHANGED <<storeVars, offEs, es_order, es_futures,
                   claimedBy, refused, handedTo, recoveries, es_observed>>

\* one iteration of the submit loop, lines 823-839
ESSubmitNext ==
    /\ es_pc = "submit"
    /\ IF es_task.should_terminate \/ es_pending = <<>>
       THEN /\ es_pc' = "collect"
            /\ es_pending' = <<>>
            /\ UNCHANGED <<es_order, es_futures, handedTo>>
       ELSE LET record == Head(es_pending)
            IN  /\ es_futures' = [es_futures EXCEPT ![record] =
                       IF es_task.should_terminate THEN "run_skip" ELSE "run"]
                /\ es_order' = Append(es_order, record)
                /\ handedTo' = [handedTo EXCEPT ![record] = @ \cup {"ES"}]
                /\ es_pending' = Tail(es_pending)
                /\ UNCHANGED es_pc
    /\ es_observed' = (es_observed \/ es_task.should_terminate)
    /\ UNCHANGED <<storeVars, offEs, es_task, es_threads, claimedBy, refused, recoveries>>

\* an executor thread of the job runs one submitted unit
ESUnitRun(i) ==
    /\ es_futures[i] \in {"run", "run_skip"}
    /\ \E res \in Outcomes :
          /\ process_business_record(i, es_futures[i] = "run_skip", res)
          /\ es_futures' = [es_futures EXCEPT ![i] = res]
    /\ UNCHANGED <<now, offEs, es_task, es_threads, es_pc, es_pending, es_order,
                   claimedBy, refused, handedTo, recoveries, es_observed>>

\* an executor thread of the job runs one unit and an exception escapes it
ESUnitRaise(i) ==
    /\ es_futures[i] = "run"
    /\ \E written \in BOOLEAN :
          IF written
          THEN update_record_with_email_results(i, "failed_domain_unreachable")
          ELSE UNCHANGED <<emailstatus, processing_started_at, recovery_note, website>>
    /\ es_futures' = [es_futures EXCEPT ![i] = "exception"]
    /\ UNCHANGED <<now, offEs, es_task, es_threads, es_pc, es_pending, es_order,
                   claimedBy, refused, handedTo, recoveries, es_observed>>

\* one iteration of "for future in futures: future.result()", lines 842-868
ESCollect ==
    /\ es_pc = "collect"
    /\ es_order # <<>>
    /\ es_futures[Head(es_order)] \in Results
    /\ es_task' = [es_task EXCEPT !.stats = Aggregate(@, es_futures[Head(es_order)])]
    /\ es_futures' = [es_futures EXCEPT ![Head(es_order)] = "agg"]
    /\ es_order' = Tail(es_order)
    /\ UNCHANGED <<storeVars, offEs, es_threads, es_pc, es_pending,
                   claimedBy, refused, handedTo, recoveries, es_observed>>

\* lines 870-896: the final status, the end time, the finally clause
ESFinish ==
    /\ es_pc = "collect"
    /\ es_order = <<>>
    /\ es_task' = [es_task EXCEPT
           !.status = IF es_task.should_terminate THEN "terminated" ELSE "completed",
           !.end_time = TRUE]
    /\ es_threads' = FALSE
    /\ es_pc' = "exited"
    /\ UNCHANGED <<storeVars, offEs, es_pending, es_order, es_futures,
                   claimedBy, refused, handedTo, recoveries, es_observed>>

\* ------------------------------------------------------------------ circuit breaker
\* email_scraper/utils/circuit_breaker.py and harvest_site_emails (scraper.py).
\* Each method of the breaker is one step.
FailureThreshold == 3
Domains == {"a.example", "b.example"}
Units == {"u1", "u2"}

ReachedThresholdStrict(n) == n > FailureThreshold
\* "self.failure_counts[domain] >= self.failure_threshold"
ReachedThreshold(n) == n >= FailureThreshold

\* record_failure(domain), domain non-empty
record_failure(d) ==
    /\ failure_counts' = [failure_counts EXCEPT ![d] = @ + 1]
    /\ last_failure_time' = [last_failure_time EXCEPT ![d] = {now}]
    /\ circuit_open' = IF ReachedThreshold(failure_counts[d] + 1) /\ d \notin circuit_open
                       THEN circuit_open \cup {d}
                       ELSE circuit_open
    /\ cb_fails' = [cb_fails EXCEPT ![d] = @ + 1]
    /\ cb_last' = [cb_last EXCEPT ![d] = {now}]

record_success_open_only(d) ==
    /\ circuit_open' = circuit_open \ {d}
    /\ UNCHANGED <<failure_counts, last_failure_time, cb_last>>
    /\ cb_fails' = [cb_fails EXCEPT ![d] = 0]

\* record_success(domain), domain non-empty
record_success(d) ==
    /\ failure_counts' = [failure_counts EXCEPT ![d] = 0]
    /\ last_failure_time' = [last_failure_time EXCEPT ![d] =
           IF failure_counts[d] > 0 THEN {} ELSE @]
    /\ circuit_open' = circuit_open \ {d}
    /\ cb_fails' = [cb_fails EXCEPT ![d] = 0]
    /\ UNCHANGED cb_last

\* "time.time() - self.last_failure_time.get(domain, 0) > self.reset_timeout";
\* with the key absent the difference is the time since the epoch
Expired(d) ==
    IF last_failure_time[d] = {} THEN TRUE
    ELSE \E t \in last_failure_time[d] : now - t > ResetTimeout

\* the value is_open(domain) returns
is_open_result(d) == d \in circuit_open /\ ~Expired(d)

is_open_remove_only(d) ==
    IF d \in circuit_open /\ Expired(d)
    THEN /\ circuit_open' = circuit_open \ {d}
         /\ cb_fails' = [cb_fails EXCEPT ![d] = 0]
         /\ UNCHANGED <<failure_counts, last_failure_time, cb_last>>
    ELSE UNCHANGED breakerVars

is_open_refresh(d) ==
    IF d \in circuit_open /\ Expired(d)
    THEN /\ circuit_open' = circuit_open \ {d}
         /\ failure_counts' = [failure_counts EXCEPT ![d] = 0]
         /\ last_failure_time' = [last_failure_time EXCEPT ![d] = {}]
         /\ cb_fails' = [cb_fails EXCEPT ![d] = 0]
         /\ UNCHANGED cb_last
    ELSE IF d \in circuit_open
    THEN /\ last_failure_time' = [last_failure_time EXCEPT ![d] = {now}]
         /\ UNCHANGED <<circuit_open, failure_counts, cb_fails, cb_last>>
    ELSE UNCHANGED breakerVars

\* the state is_open(domain) leaves: an expired open circuit is reset
is_open(d) ==
    IF d \in circuit_open /\ Expired(d)
    THEN /\ circuit_open' = circuit_open \ {d}
         /\ failure_counts' = [failure_counts EXCEPT ![d] = 0]
         /\ last_failure_time' = [last_failure_time EXCEPT ![d] = {}]
         /\ cb_fails' = [cb_fails EXCEPT ![d] = 0]
         /\ UNCHANGED cb_last
    ELSE UNCHANGED breakerVars

IsFailed(status) ==
    status \in {"failed_circuit_breaker", "failed_driver_dead", "failed_domain_unreachable"}

IdleUnit == [pc |-> "idle", domain |-> "", was_open |-> FALSE, fetches |-> 0,
             accessible |-> TRUE, emails |-> FALSE, final_status |-> "checked_no_email",
             status |-> "", error_message |-> FALSE]

BreakerBlocksNever(r) == FALSE
\* "if circuit_breaker.is_open(domain): return [], 'failed_circuit_breaker', ..."
BreakerBlocks(r) == r

\* harvest_site_emails lines 56-69, for a valid URL of domain d
HarvestCheck(u, d) ==
    /\ unit[u].pc \in {"idle", "done"}
    /\ harvests < MaxHarvests
    /\ harvests' = harvests + 1
    /\ is_open(d)
    /\ LET r == is_open_result(d)
       IN  unit' = [unit EXCEPT ![u] =
               IF BreakerBlocks(r)
               THEN [IdleUnit EXCEPT !.pc = "done", !.domain = d, !.was_open = r,
                                     !.status = "failed_circuit_breaker"]
               ELSE [IdleUnit EXCEPT !.pc = "requests", !.domain = d, !.was_open = r]]
    /\ UNCHANGED <<storeVars, poolVars, esVars, jobVars, histVars, sideVars>>

\* lines 71-79: the requests attempt on the main page
HarvestRequests(u) ==
    /\ unit[u].pc = "requests"
    /\ \E got \in BOOLEAN :
          unit' = [unit EXCEPT ![u].pc = "selenium", ![u].fetches = @ + 1, ![u].emails = got]
    /\ UNCHANGED <<storeVars, poolVars, esVars, jobVars, histVars, sideVars, breakerVars, harvests>>

\* lines 147-150, reached after the try statement of the main-page load whatever
\* its outcome: "if len(all_found_emails) >= 3: return ..., 'found', None"
EarlySuccess(r, enough) ==
    IF enough THEN [r EXCEPT !.pc = "done", !.status = "found"]
    ELSE [r EXCEPT !.pc = "contacts"]

\* lines 81-150: the Selenium load of the main page and the early success return
HarvestSelenium(u) ==
    /\ unit[u].pc = "selenium"
    /\ LET d == unit[u].domain
           fetched == [unit[u] EXCEPT !.fetches = @ + 1]
       IN  \E out \in {"loaded", "timeout", "webdriver_error", "unreachable",
                       "driver_dead", "exception"} :
             IF out = "loaded"
             THEN /\ record_success(d)
                  /\ \E got, enough \in BOOLEAN :
                        /\ enough => (got \/ unit[u].emails)
                        /\ unit' = [unit EXCEPT ![u] =
                               IF enough
                               THEN [fetched EXCEPT !.emails = TRUE, !.pc = "done",
                                                    !.status = "found"]
                               ELSE [fetched EXCEPT !.emails = got \/ @, !.pc = "contacts"]]
             ELSE IF out = "timeout"
             THEN /\ UNCHANGED breakerVars
                  /\ \E enough \in BOOLEAN :
                        /\ enough => unit[u].emails
                        /\ unit' = [unit EXCEPT ![u] =
                               EarlySuccess([fetched EXCEPT !.accessible = FALSE,
                                                            !.error_message = TRUE], enough)]
             ELSE /\ record_failure(d)
                  /\ \E enough \in BOOLEAN :
                        /\ enough => unit[u].emails
                        /\ unit' = [unit EXCEPT ![u] =
                               IF out = "driver_dead"
                               THEN [fetched EXCEPT !.pc = "done", !.status = "failed_driver_dead",
                                                    !.error_message = TRUE]
                               ELSE EarlySuccess(
                                        [fetched EXCEPT !.accessible = (out = "webdriver_error"),
                                                        !.error_message = TRUE], enough)]
    /\ UNCHANGED <<storeVars, poolVars, esVars, jobVars, histVars, sideVars, harvests>>

\* lines 152-233: the contact pages, only when the main domain was accessible
HarvestContacts(u) ==
    /\ unit[u].pc = "contacts"
    /\ LET d == unit[u].domain
       IN  IF ~unit[u].accessible
           THEN /\ unit' = [unit EXCEPT ![u].pc = "final"]
                /\ UNCHANGED breakerVars
           ELSE \E out \in {"pages", "dead_before", "dead_on_page"} :
                  IF out = "pages"
                  THEN /\ \E got \in BOOLEAN :
                             unit' = [unit EXCEPT ![u].pc = "final", ![u].fetches = @ + 1,
                                                  ![u].emails = got \/ @]
                       /\ UNCHANGED breakerVars
                  ELSE IF out = "dead_before"
                  THEN /\ unit' = [unit EXCEPT ![u].pc = "final",
                                               ![u].final_status = "failed_driver_dead"]
                       /\ UNCHANGED breakerVars
                  ELSE /\ record_failure(d)
                       /\ unit' = [unit EXCEPT ![u].pc = "final", ![u].fetches = @ + 1,
                                               ![u].final_status = "failed_driver_dead"]
    /\ UNCHANGED <<storeVars, poolVars, esVars, jobVars, histVars, sideVars, harvests>>

\* lines 235-259: the final status and the breaker update
HarvestFinal(u) ==
    /\ unit[u].pc = "final"
    /\ LET d == unit[u].domain
           final_status ==
               IF unit[u].emails THEN "found"
               ELSE IF IsFailed(unit[u].final_status) THEN unit[u].final_status
               ELSE IF ~unit[u].accessible THEN "failed_domain_unreachable"
               ELSE "checked_no_email"
       IN  /\ IF IsFailed(final_status) THEN record_failure(d) ELSE record_success(d)
           /\ unit' = [unit EXCEPT ![u].pc = "done", ![u].final_status = final_status,
                                   ![u].status = final_status]
    /\ UNCHANGED <<storeVars, poolVars, esVars, jobVars, histVars, sideVars, harvests>>

\* ------------------------------------------------------------------ breaker methods, statement by statement
\* The pool threads of one process share the module-level circuit_breaker; its
\* methods take no lock, so another thread can run between any two statements,
\* and between the read and the write of line 50.
Threads == {"t1", "t2"}
RaceDomains == {"a.example"}

IdleThread == [pc |-> "idle", domain |-> "", count |-> 0, passed |-> FALSE]

\* what the statements of the breaker methods leave alone
offRace == <<storeVars, poolVars, esVars, jobVars, histVars, unit, harvests, cb_fails, cb_last,
             sweep, extVars>>

\* a unit of work calls record_failure (scraper.py 122, 143, 222, 253, 309, 320)
CallRecordFailure(t, d) ==
    /\ th[t].pc = "idle"
    /\ calls < MaxCalls
    /\ calls' = calls + 1
    /\ th' = [th EXCEPT ![t].pc = "rf50r", ![t].domain = d]
    /\ UNCHANGED <<offRace, failure_counts, circuit_open, last_failure_time, opened, raised>>

\* a unit of work calls is_open (scraper.py 68)
CallIsOpen(t, d) ==
    /\ th[t].pc = "idle"
    /\ calls < MaxCalls
    /\ calls' = calls + 1
    /\ th' = [th EXCEPT ![t].pc = "io68", ![t].domain = d, ![t].passed = FALSE]
    /\ UNCHANGED <<offRace, failure_counts, circuit_open, last_failure_time, opened, raised>>

\* a unit of work that is_open let through calls record_success (scraper.py 118, 257)
CallRecordSuccess(t) ==
    /\ th[t].pc = "idle"
    /\ th[t].passed
    /\ calls < MaxCalls
    /\ calls' = calls + 1
    /\ th' = [th EXCEPT ![t].pc = "rs92"]
    /\ UNCHANGED <<offRace, failure_counts, circuit_open, last_failure_time, opened, raised>>

\* line 50, right-hand side: self.failure_counts.get(domain, 0)
Rf50Read(t) ==
    /\ th[t].pc = "rf50r"
    /\ th' = [th EXCEPT ![t].pc = "rf50w", ![t].count = failure_counts[th[t].domain]]
    /\ UNCHANGED <<offRace, failure_counts, circuit_open, last_failure_time, calls, opened, raised>>

\* line 50, the store: self.failure_counts[domain] = ... + 1
Rf50Write(t) ==
    /\ th[t].pc = "rf50w"
    /\ failure_counts' = [failure_counts EXCEPT ![th[t].domain] = th[t].count + 1]
    /\ th' = [th EXCEPT ![t].pc = "rf51"]
    /\ UNCHANGED <<offRace, circuit_open, last_failure_time, calls, opened, raised>>

\* line 51: self.last_failure_time[domain] = time.time()
Rf51(t) ==
    /\ th[t].pc = "rf51"
    /\ last_failure_time' = [last_failure_time EXCEPT ![th[t].domain] = {now}]
    /\ th' = [th EXCEPT ![t].pc = "rf52"]
    /\ UNCHANGED <<offRace, failure_counts, circuit_open, calls, opened, raised>>

\* line 52: the f-string reads self.failure_counts[domain]; KeyError without the key
Rf52(t) ==
    /\ th[t].pc = "rf52"
    /\ IF failure_counts[th[t].domain] = 0
       THEN /\ raised' = TRUE
            /\ th' = [th EXCEPT ![t].pc = "idle"]
       ELSE /\ th' = [th EXCEPT ![t].pc = "rf54"]
            /\ UNCHANGED raised
    /\ UNCHANGED <<offRace, failure_counts, circuit_open, last_failure_time, calls, opened>>

\* line 54: the threshold test and "domain not in self.circuit_open"
Rf54(t) ==
    /\ th[t].pc = "rf54"
    /\ LET d == th[t].domain
       IN  IF failure_counts[d] = 0
           THEN /\ raised' = TRUE
                /\ th' = [th EXCEPT ![t].pc = "idle"]
           ELSE /\ th' = [th EXCEPT ![t].pc =
                       IF ReachedThreshold(failure_counts[d]) /\ d \notin circuit_open
                       THEN "rf55" ELSE "idle"]
                /\ UNCHANGED raised
    /\ UNCHANGED <<offRace, failure_counts, circuit_open, last_failure_time, calls, opened>>

\* lines 55-56: log "Circuit breaker OPENED" and self.circuit_open.add(domain)
Rf55(t) ==
    /\ th[t].pc = "rf55"
    /\ opened' = [opened EXCEPT ![th[t].domain] = @ + 1]
    /\ circuit_open' = circuit_open \cup {th[t].domain}
    /\ th' = [th EXCEPT ![t].pc = "idle"]
    /\ UNCHANGED <<offRace, failure_counts, last_failure_time, calls, raised>>

\* line 68: "domain not in self.circuit_open" returns False
Io68(t) ==
    /\ th[t].pc = "io68"
    /\ th' = IF th[t].domain \in circuit_open
             THEN [th EXCEPT ![t].pc = "io71"]
             ELSE [th EXCEPT ![t].pc = "idle", ![t].passed = TRUE]
    /\ UNCHANGED <<offRace, failure_counts, circuit_open, last_failure_time, calls, opened, raised>>

\* line 71: the timeout test; line 80 returns True
Io71(t) ==
    /\ th[t].pc = "io71"
    /\ th' = [th EXCEPT ![t].pc = IF Expired(th[t].domain) THEN "io72" ELSE "idle"]
    /\ UNCHANGED <<offRace, failure_counts, circuit_open, last_failure_time, calls, opened, raised>>

\* line 72: self.circuit_open.remove(domain); KeyError when it is no member
Io72(t) ==
    /\ th[t].pc = "io72"
    /\ LET d == th[t].domain
       IN  IF d \notin circuit_open
           THEN /\ raised' = TRUE
                /\ th' = [th EXCEPT ![t].pc = "idle"]
                /\ UNCHANGED <<circuit_open, opened>>
           ELSE /\ circuit_open' = circuit_open \ {d}
                /\ opened' = [opened EXCEPT ![d] = 0]
                /\ th' = [th EXCEPT ![t].pc = "io73"]
                /\ UNCHANGED raised
    /\ UNCHANGED <<offRace, failure_counts, last_failure_time, calls>>

\* line 73: "if domain in self.failure_counts"
Io73(t) ==
    /\ th[t].pc = "io73"
    /\ th' = [th EXCEPT ![t].pc = IF failure_counts[th[t].domain] > 0 THEN "io74" ELSE "io75"]
    /\ UNCHANGED <<offRace, failure_counts, circuit_open, last_failure_time, calls, opened, raised>>

\* line 74: del self.failure_counts[domain]
Io74(t) ==
    /\ th[t].pc = "io74"
    /\ LET d == th[t].domain
       IN  IF failure_counts[d] = 0
           THEN /\ raised' = TRUE
                /\ th' = [th EXCEPT ![t].pc = "idle"]
                /\ UNCHANGED failure_counts
           ELSE /\ failure_counts' = [failure_counts EXCEPT ![d] = 0]
                /\ th' = [th EXCEPT ![t].pc = "io75"]
                /\ UNCHANGED raised
    /\ UNCHANGED <<offRace, circuit_open, last_failure_time, calls, opened>>

\* line 75: "if domain in self.last_failure_time"; lines 77-78 return False
Io75(t) ==
    /\ th[t].pc = "io75"
    /\ th' = IF last_failure_time[th[t].domain] # {}
             THEN [th EXCEPT ![t].pc = "io76"]
             ELSE [th EXCEPT ![t].pc = "idle", ![t].passed = TRUE]
    /\ UNCHANGED <<offRace, failure_counts, circuit_open, last_failure_time, calls, opened, raised>>

\* line 76: del self.last_failure_time[domain]; lines 77-78 return False
Io76(t) ==
    /\ th[t].pc = "io76"
    /\ LET d == th[t].domain
       IN  IF last_failure_time[d] = {}
           THEN /\ raised' = TRUE
                /\ th' = [th EXCEPT ![t].pc = "idle"]
                /\ UNCHANGED last_failure_time
           ELSE /\ last_failure_time' = [last_failure_time EXCEPT ![d] = {}]
                /\ th' = [th EXCEPT ![t].pc = "idle", ![t].passed = TRUE]
                /\ UNCHANGED raised
    /\ UNCHANGED <<offRace, failure_counts, circuit_open, calls, opened>>

\* line 92: "if domain in self.failure_counts"
Rs92(t) ==
    /\ th[t].pc = "rs92"
    /\ th' = [th EXCEPT ![t].pc = IF failure_counts[th[t].domain] > 0 THEN "rs94" ELSE "rs98"]
    /\ UNCHANGED <<offRace, failure_counts, circuit_open, last_failure_time, calls, opened, raised>>

\* line 94: del self.failure_counts[domain]
Rs94(t) ==
    /\ th[t].pc = "rs94"
    /\ LET d == th[t].domain
       IN  IF failure_counts[d] = 0
           THEN /\ raised' = TRUE
                /\ th' = [th EXCEPT ![t].pc = "idle"]
                /\ UNCHANGED failure_counts
           ELSE /\ failure_counts' = [failure_counts EXCEPT ![d] = 0]
                /\ th' = [th EXCEPT ![t].pc = "rs95"]
                /\ UNCHANGED raised
    /\ UNCHANGED <<offRace, circuit_open, last_failure_time, calls, opened>>

\* line 95: "if domain in self.last_failure_time"
Rs95(t) ==
    /\ th[t].pc = "rs95"
    /\ th' = [th EXCEPT ![t].pc = IF last_failure_time[th[t].domain] # {} THEN "rs96" ELSE "rs98"]
    /\ UNCHANGED <<offRace, failure_counts, circuit_open, last_failure_time, calls, opened, raised>>

\* line 96: del self.last_failure_time[domain]
Rs96(t) ==
    /\ th[t].pc = "rs96"
    /\ LET d == th[t].domain
       IN  IF last_failure_time[d] = {}
           THEN /\ raised' = TRUE
                /\ th' = [th EXCEPT ![t].pc = "idle"]
                /\ UNCHANGED last_failure_time
           ELSE /\ last_failure_time' = [last_failure_time EXCEPT ![d] = {}]
                /\ th' = [th EXCEPT ![t].pc = "rs98"]
                /\ UNCHANGED raised
    /\ UNCHANGED <<offRace, failure_counts, circuit_open, calls, opened>>

\* line 98: "if domain in self.circuit_open"
Rs98(t) ==
    /\ th[t].pc = "rs98"
    /\ th' = [th EXCEPT ![t].pc = IF th[t].domain \in circuit_open THEN "rs99" ELSE "idle"]
    /\ UNCHANGED <<offRace, failure_counts, circuit_open, last_failure_time, calls, opened, raised>>

\* lines 99-100: self.circuit_open.remove(domain) and the CLOSED log line
Rs99(t) ==
    /\ th[t].pc = "rs99"
    /\ LET d == th[t].domain
       IN  IF d \notin circuit_open
           THEN /\ raised' = TRUE
                /\ UNCHANGED <<circuit_open, opened>>
           ELSE /\ circuit_open' = circuit_open \ {d}
                /\ opened' = [opened EXCEPT ![d] = 0]
                /\ UNCHANGED raised
    /\ th' = [th EXCEPT ![t].pc = "idle"]
    /\ UNCHANGED <<offRace, failure_counts, last_failure_time, calls>>

\* ------------------------------------------------------------------ task ids of the email jobs
\* flask_app.py: es_task_data is keyed by
\* task_id = f"ES_{db_name}_{collection_name}_{threading.get_ident()}", the
\* identifier of the thread that serves the request. The server hands each
\* request to a thread of its own that ends with the response, and the
\* identifier of a thread that has ended can be given to a later thread.
Colls == {"c1", "c2"}
Idents == 1..NIdents
TaskIds == Colls \X Idents
Workers == {"k1", "k2", "k3"}
NoRecord == [status |-> "none", should_terminate |-> FALSE, processed |-> 0]
NewRecord == [status |-> "starting", should_terminate |-> FALSE, processed |-> 0]
FreeWorker == [pc |-> "free", task_id |-> <<>>]

\* what the steps of this section leave alone
offIds == <<storeVars, poolVars, esVars, jobVars, histVars, breakerVars, unit, harvests,
            raceVars, sweep, queueVars, pageVars, connVars>>

\* threading.get_ident() in the thread serving the request
get_ident(k) == Idents

\* GET /api/scrapeES, lines 163-194: the id, the record, the worker thread k
StartEs(k, c) ==
    /\ es_worker[k].pc = "free"
    /\ \E ident \in get_ident(k) :
          LET task_id == <<c, ident>>
          IN  /\ es_task_data' = [es_task_data EXCEPT ![task_id] = NewRecord]
              /\ es_worker' = [es_worker EXCEPT ![k] = [pc |-> "spawned", task_id |-> task_id]]
    /\ UNCHANGED offIds

\* POST /api/terminateES/<task_id>, lines 241-268
TerminateEs(task_id) ==
    /\ es_task_data[task_id].status \notin {"none"} \cup TerminalJob
    /\ es_task_data' = [es_task_data EXCEPT ![task_id].should_terminate = TRUE,
                                            ![task_id].status = "terminated"]
    /\ UNCHANGED <<offIds, es_worker>>

\* run_email_scrape_task(task_id, ...), line 785
WorkerRunning(k) ==
    /\ es_worker[k].pc = "spawned"
    /\ es_task_data' = [es_task_data EXCEPT ![es_worker[k].task_id].status = "running"]
    /\ es_worker' = [es_worker EXCEPT ![k].pc = "running"]
    /\ UNCHANGED offIds

\* lines 842-868: one result collected, es_task_data[task_id]['processed'] += 1
WorkerCollect(k) ==
    /\ es_worker[k].pc = "running"
    /\ es_task_data[es_worker[k].task_id].processed < MaxUnits
    /\ es_task_data' = [es_task_data EXCEPT ![es_worker[k].task_id].processed = @ + 1]
    /\ UNCHANGED <<offIds, es_worker>>

\* lines 870-876: the final status
WorkerFinish(k) ==
    /\ es_worker[k].pc = "running"
    /\ es_task_data' = [es_task_data EXCEPT ![es_worker[k].task_id].status =
           IF es_task_data[es_worker[k].task_id].should_terminate
           THEN "terminated" ELSE "completed"]
    /\ es_worker' = [es_worker EXCEPT ![k].pc = "exited"]
    /\ UNCHANGED offIds

\* ------------------------------------------------------------------ the subsector queue
\* googlemaps_scraper/main.py, process_subsectors. A worker is one call: of the
\* API job (mode "all", with a termination_check) or of the command line
\* (mode "all", or "range" with --start 0 --end NSubs-1; no termination_check).
Subs == 1..NSubs
GWorkers == {"g1", "g2"}
IdleGWorker == [pc |-> "idle", mode |-> "all", doc |-> 0, idx |-> 1, stop |-> FALSE]

offQueue == <<storeVars, poolVars, esVars, jobVars, histVars, breakerVars, unit, harvests,
              raceVars, sweep, idVars, pageVars, connVars>>

\* process_subsectors is called
QStart(g) ==
    /\ q_worker[g].pc = "idle"
    /\ \E mode \in {"all", "range"} :
          q_worker' = [q_worker EXCEPT ![g] = [IdleGWorker EXCEPT !.pc = "iter", !.mode = mode]]
    /\ UNCHANGED <<offQueue, q_doc, q_claims>>

\* the user asks for termination, or the record limit is reached:
\* termination_check() is true from now on
QTerminate(g) ==
    /\ q_worker[g].mode = "all"
    /\ q_worker[g].pc \notin {"idle", "returned"}
    /\ ~q_worker[g].stop
    /\ q_worker' = [q_worker EXCEPT ![g].stop = TRUE]
    /\ UNCHANGED <<offQueue, q_doc, q_claims>>

\* the filter {"scrapedsuccessfully": False, "processing": False} of lines 103-107
ClaimFilter(d) == ~q_doc[d].scrapedsuccessfully /\ ~q_doc[d].processing

\* doc_iter yields document d to worker g, its processing field set
Yield(g, d) ==
    /\ q_claims[g][d] < MaxClaims
    /\ q_doc' = [q_doc EXCEPT ![d].processing = TRUE]
    /\ q_claims' = [q_claims EXCEPT ![g][d] = @ + 1]

\* one step of doc_iter: lines 96-111 (all unprocessed subsectors) and
\* lines 78-93 (index range, find_one_and_update by _id)
QIter(g) ==
    /\ q_worker[g].pc = "iter"
    /\ IF q_worker[g].mode = "all"
       THEN IF q_worker[g].stop \/ ~\E d \in Subs : ClaimFilter(d)
            THEN /\ q_worker' = [q_worker EXCEPT ![g].pc = "returned"]
                 /\ UNCHANGED <<q_doc, q_claims>>
            ELSE \E d \in Subs :
                    /\ ClaimFilter(d)
                    /\ Yield(g, d)
                    /\ q_worker' = [q_worker EXCEPT ![g].pc = "top", ![g].doc = d]
       ELSE IF q_worker[g].idx > NSubs
            THEN /\ q_worker' = [q_worker EXCEPT ![g].pc = "returned"]
                 /\ UNCHANGED <<q_doc, q_claims>>
            ELSE /\ Yield(g, q_worker[g].idx)
                 /\ q_worker' = [q_worker EXCEPT ![g].pc = "top", ![g].doc = q_worker[g].idx,
                                                 ![g].idx = @ + 1]
    /\ UNCHANGED offQueue

\* lines 129-138: the check at the head of the loop body
QTop(g) ==
    /\ q_worker[g].pc = "top"
    /\ IF q_worker[g].stop
       THEN /\ q_doc' = [q_doc EXCEPT ![q_worker[g].doc].processing = FALSE]
            /\ q_worker' = [q_worker EXCEPT ![g].pc = "returned", ![g].doc = 0]
       ELSE /\ q_worker' = [q_worker EXCEPT ![g].pc = "attempts"]
            /\ UNCHANGED q_doc
    /\ UNCHANGED <<offQueue, q_claims>>

\* lines 151-282: up to three attempts, then the timeout branch, the
\* termination branch, the "skipped after failed attempts" branch or "mark
\* subsector done", and the check after completion
QAttempts(g) ==
    /\ q_worker[g].pc = "attempts"
    /\ LET d == q_worker[g].doc
       IN  \E rows, timeout \in BOOLEAN :
             IF timeout
             THEN /\ q_doc' = [q_doc EXCEPT ![d] =
                         [scrapedsuccessfully |-> rows, processing |-> FALSE]]
                  /\ q_worker' = [q_worker EXCEPT ![g].pc = "iter", ![g].doc = 0]
             ELSE IF q_worker[g].stop
             THEN /\ q_doc' = [q_doc EXCEPT ![d].processing = FALSE]
                  /\ q_worker' = [q_worker EXCEPT ![g].pc = "returned", ![g].doc = 0]
             ELSE IF ~rows
             THEN /\ q_doc' = [q_doc EXCEPT ![d].processing = FALSE]
                  /\ q_worker' = [q_worker EXCEPT ![g].pc = "iter", ![g].doc = 0]
             ELSE /\ q_doc' = [q_doc EXCEPT ![d] =
                         [scrapedsuccessfully |-> TRUE, processing |-> FALSE]]
                  /\ q_worker' = [q_worker EXCEPT ![g].pc = "iter", ![g].doc = 0]
    /\ UNCHANGED <<offQueue, q_claims>>

\* ------------------------------------------------------------------ postcode pages
\* postcode_scraper/scraping/scraper.py, create_worker: the worker threads of
\* one postcode task, started by run_postcode_scrape_task (kind "api") or by
\* the main() of postcode_scraper (kind "cli"); one step per statement
PgWorkers == {"w1", "w2"}

offPage == <<storeVars, poolVars, esVars, jobVars, histVars, breakerVars, unit, harvests,
             raceVars, sweep, idVars, queueVars, connVars>>

\* the caller sets next_page_num = 1, stop_scraping = False and starts the threads
PgStart(kind) ==
    /\ pg_task.kind = "none"
    /\ pg_task' = [pg_task EXCEPT !.kind = kind]
    /\ pg_worker' = [w \in PgWorkers |-> [pc |-> "lock", page |-> 0]]
    /\ UNCHANGED <<offPage, page_lock, next_page_num, stop_scraping, pg_fetched, pg_handed>>

\* terminate_postcode_scraper_task: ps_task_data[task_id]['should_terminate'] = True
PgTerminate ==
    /\ pg_task.kind = "api"
    /\ ~pg_task.should_terminate
    /\ pg_task' = [pg_task EXCEPT !.should_terminate = TRUE]
    /\ UNCHANGED <<offPage, page_lock, next_page_num, stop_scraping, pg_worker, pg_fetched,
                   pg_handed>>

\* lambda: task['stop_scraping'] or task['should_terminate'] (flask_app.py);
\* lambda: stop_scraping (main.py), where should_terminate stays False
get_stop_scraping == stop_scraping \/ pg_task.should_terminate

\* with page_lock:
PgAcquire(w) ==
    /\ pg_worker[w].pc = "lock"
    /\ page_lock = "free"
    /\ page_lock' = w
    /\ pg_worker' = [pg_worker EXCEPT ![w].pc = "check"]
    /\ UNCHANGED <<offPage, next_page_num, stop_scraping, pg_task, pg_fetched, pg_handed>>

\* if get_stop_scraping(): break
PgCheck(w) ==
    /\ pg_worker[w].pc = "check"
    /\ IF get_stop_scraping
       THEN /\ page_lock' = "free"
            /\ pg_worker' = [pg_worker EXCEPT ![w].pc = "exit"]
       ELSE /\ pg_worker' = [pg_worker EXCEPT ![w].pc = "get"]
            /\ UNCHANGED page_lock
    /\ UNCHANGED <<offPage, next_page_num, stop_scraping, pg_task, pg_fetched, pg_handed>>

\* page = get_next_page_num()
PgGet(w) ==
    /\ pg_worker[w].pc = "get"
    /\ next_page_num <= MaxPage
    /\ pg_worker' = [pg_worker EXCEPT ![w] = [pc |-> "set", page |-> next_page_num]]
    /\ pg_handed' = pg_handed \cup {next_page_num}
    /\ UNCHANGED <<offPage, page_lock, next_page_num, stop_scraping, pg_task, pg_fetched>>

\* set_next_page_num(page + 1) and the end of the with block. The setter of
\* flask_app.py is task.update({'next_page_num': val}); the setter of main.py
\* is setattr(globals(), 'next_page_num', val), which raises AttributeError (a
\* dict takes no attributes): the lock is released and the thread ends
PgSet(w) ==
    /\ pg_worker[w].pc = "set"
    /\ page_lock' = "free"
    /\ IF pg_task.kind = "api"
       THEN /\ next_page_num' = pg_worker[w].page + 1
            /\ pg_worker' = [pg_worker EXCEPT ![w].pc = "fetch"]
       ELSE /\ pg_worker' = [pg_worker EXCEPT ![w].pc = "raised"]
            /\ UNCHANGED next_page_num
    /\ UNCHANGED <<offPage, stop_scraping, pg_task, pg_fetched, pg_handed>>

\* pcs = fetch_postcodes(driver, build_url(prefix, page), timeout); with
\* postcodes the worker stores them, sleeps and starts over
PgFetch(w) ==
    /\ pg_worker[w].pc = "fetch"
    /\ pg_fetched' = [pg_fetched EXCEPT ![w] = @ \cup {pg_worker[w].page}]
    /\ \E pcs \in BOOLEAN :
          pg_worker' = [pg_worker EXCEPT ![w].pc = IF pcs THEN "lock" ELSE "empty"]
    /\ UNCHANGED <<offPage, page_lock, next_page_num, stop_scraping, pg_task, pg_handed>>

\* if not pcs: with page_lock: set_stop_scraping(True); break
PgSetStop(w) ==
    /\ pg_worker[w].pc = "empty"
    /\ page_lock = "free"
    /\ stop_scraping' = TRUE
    /\ pg_worker' = [pg_worker EXCEPT ![w].pc = "exit"]
    /\ UNCHANGED <<offPage, page_lock, next_page_num, pg_task, pg_fetched, pg_handed>>

\* ------------------------------------------------------------------ connection retries
\* setup_mongodb of email_scraper/db_management/db_connection.py ("email") and
\* of googlemaps_scraper/db_management/db_connection.py ("googlemaps"); delays
\* in seconds
Layers == {"email", "googlemaps"}
\* email_scraper/config.py and googlemaps_scraper/utils/config.py hold the same value
MONGO_RETRY_ATTEMPTS == 3
MONGO_RETRY_DELAY_email == 2
MONGO_RETRY_DELAY_googlemaps == 1

\* delay = MONGO_RETRY_DELAY * (2 ** attempt)
email_delay(attempt) == MONGO_RETRY_DELAY_email * (2 ^ attempt)
googlemaps_delay_fixed(attempt) == MONGO_RETRY_DELAY_googlemaps
\* time.sleep(MONGO_RETRY_DELAY * (attempt + 1))
googlemaps_delay(attempt) == MONGO_RETRY_DELAY_googlemaps * (attempt + 1)

offConn == <<storeVars, poolVars, esVars, jobVars, histVars, breakerVars, unit, harvests,
             raceVars, sweep, idVars, queueVars, pageVars>>

\* setup_mongodb is called: for attempt in range(MONGO_RETRY_ATTEMPTS)
ConnStart(l) ==
    /\ conn[l].pc = "idle"
    /\ conn' = [conn EXCEPT ![l].pc = "try"]
    /\ UNCHANGED offConn

\* the ping succeeds: return client and collections
ConnOk(l) ==
    /\ conn[l].pc = "try"
    /\ conn' = [conn EXCEPT ![l].pc = "connected"]
    /\ UNCHANGED offConn

\* except (ServerSelectionTimeoutError, ConnectionFailure): sleep and take
\* the next attempt, or give up after the last one
ConnFail(l) ==
    /\ conn[l].pc = "try"
    /\ LET attempt == conn[l].attempt
           delay == IF l = "email" THEN email_delay(attempt) ELSE googlemaps_delay(attempt)
       IN  IF attempt < MONGO_RETRY_ATTEMPTS - 1
           THEN conn' = [conn EXCEPT ![l].slept = Append(@, delay), ![l].attempt = attempt + 1]
           ELSE conn' = [conn EXCEPT ![l].pc = "failed"]
    /\ UNCHANGED offConn

\* except Exception: give up at once (return None, None; sys.exit(1))
ConnUnexpected(l) ==
    /\ conn[l].pc = "try"
    /\ conn' = [conn EXCEPT ![l].pc = "error"]
    /\ UNCHANGED offConn

\* ------------------------------------------------------------------ postcode and Google-Maps jobs
\* flask_app.py. One pipeline per behaviour: a request starts the postcode job or
\* the Google-Maps job, and the chained jobs get the ids "GM" and "ES".
NoPsTask == [status |-> "none", should_terminate |-> FALSE, auto_run_gmaps |-> FALSE,
             run_es_auto |-> FALSE, gmaps_task_id |-> FALSE, error |-> FALSE]
NewPsTask(auto, res) == [status |-> "starting", should_terminate |-> FALSE, auto_run_gmaps |-> auto,
                         run_es_auto |-> res, gmaps_task_id |-> FALSE, error |-> FALSE]
NoGmTask == [status |-> "none", should_terminate |-> FALSE, run_es_auto |-> FALSE,
             limit_reached |-> FALSE, email_task_id |-> FALSE, error |-> FALSE]
NewGmTask(res) == [status |-> "starting", should_terminate |-> FALSE, run_es_auto |-> res,
                   limit_reached |-> FALSE, email_task_id |-> FALSE, error |-> FALSE]

\* GET /api/scrapePS: when the queue collection already has data the endpoint
\* starts the Google-Maps job itself (or nothing); otherwise the postcode job
start_postcode_scrape ==
    /\ ps_task.status = "none" /\ gm_task.status = "none"
    /\ \E has_data, auto_run_gmaps, run_es_auto \in BOOLEAN :
          IF has_data
          THEN /\ auto_run_gmaps
               /\ gm_task' = NewGmTask(run_es_auto)
               /\ gm_pc' = "spawned"
               /\ gm_threads' = TRUE
               /\ UNCHANGED <<ps_task, ps_pc, ps_threads>>
          ELSE /\ ps_task' = NewPsTask(auto_run_gmaps, run_es_auto)
               /\ ps_pc' = "spawned"
               /\ ps_threads' = TRUE
               /\ UNCHANGED <<gm_task, gm_pc, gm_threads>>
    /\ UNCHANGED <<storeVars, poolVars, esVars, histVars, cbVars, ps_reply, ps_observed,
                   gm_reply, gm_total, gm_success, gm_observed>>

\* GET /api/scrapeGM
start_gmaps_scrape ==
    /\ ps_task.status = "none" /\ gm_task.status = "none"
    /\ \E run_es_auto \in BOOLEAN : gm_task' = NewGmTask(run_es_auto)
    /\ gm_pc' = "spawned"
    /\ gm_threads' = TRUE
    /\ UNCHANGED <<storeVars, poolVars, esVars, histVars, cbVars, psVars,
                   gm_reply, gm_total, gm_success, gm_observed>>

\* POST /api/terminatePS/<task_id>
terminate_postcode_task ==
    /\ ps_task.status # "none"
    /\ IF ps_task.status \in TerminalJob
       THEN /\ ps_reply' = "already"
            /\ UNCHANGED <<ps_task, gm_task>>
       ELSE /\ ps_reply' = "terminated"
            /\ ps_task' = [ps_task EXCEPT !.should_terminate = TRUE, !.status = "terminated"]
            /\ IF ps_task.gmaps_task_id /\ gm_task.status \in {"starting", "running"}
               THEN gm_task' = [gm_task EXCEPT !.should_terminate = TRUE, !.status = "terminated"]
               ELSE UNCHANGED gm_task
    /\ UNCHANGED <<storeVars, poolVars, esVars, histVars, cbVars, ps_pc, ps_threads, ps_observed,
                   gm_pc, gm_threads, gm_reply, gm_total, gm_success, gm_observed>>

\* POST /api/terminateGM/<task_id>
terminate_gmaps_task ==
    /\ gm_task.status # "none"
    /\ IF gm_task.status \in TerminalJob
       THEN /\ gm_reply' = "already"
            /\ UNCHANGED gm_task
       ELSE /\ gm_reply' = "terminated"
            /\ gm_task' = [gm_task EXCEPT !.should_terminate = TRUE, !.status = "terminated"]
    /\ UNCHANGED <<storeVars, poolVars, esVars, histVars, cbVars, psVars,
                   gm_pc, gm_threads, gm_total, gm_success, gm_observed>>

\* run_postcode_scrape_task, line 905
PSSetRunning ==
    /\ ps_pc = "spawned"
    /\ ps_task' = [ps_task EXCEPT !.status = "running"]
    /\ ps_pc' = "wait"
    /\ UNCHANGED <<storeVars, poolVars, esVars, histVars, cbVars, gmVars,
                   ps_threads, ps_reply, ps_observed>>

\* lines 936-946: the wait loop ends when the workers are done or the flag is set
PSWait ==
    /\ ps_pc = "wait"
    /\ ps_pc' = "load"
    /\ ps_observed' = ps_task.should_terminate
    /\ UNCHANGED <<storeVars, poolVars, esVars, histVars, cbVars, gmVars,
                   ps_task, ps_threads, ps_reply>>

\* lines 948-1021: load the results, set the status, chain, the handlers
PSFinish ==
    /\ ps_pc = "load"
    /\ \E loaded \in BOOLEAN :
          IF ~loaded
          THEN /\ ps_task' = [ps_task EXCEPT !.status = "failed", !.error = TRUE]
               /\ UNCHANGED <<gm_task, gm_pc, gm_threads>>
          ELSE IF ps_task.auto_run_gmaps /\ ~ps_task.should_terminate
               THEN /\ ps_task' = [ps_task EXCEPT !.status = "completed", !.gmaps_task_id = TRUE]
                    /\ gm_task' = NewGmTask(ps_task.run_es_auto)
                    /\ gm_pc' = "spawned"
                    /\ gm_threads' = TRUE
               ELSE /\ ps_task' = [ps_task EXCEPT !.status = "completed"]
                    /\ UNCHANGED <<gm_task, gm_pc, gm_threads>>
    /\ ps_pc' = "exited"
    /\ UNCHANGED <<storeVars, poolVars, esVars, histVars, cbVars, ps_threads, ps_reply, ps_observed,
                   gm_reply, gm_total, gm_success, gm_observed>>

\* run_gmaps_scrape_task, line 1030
GMSetRunning ==
    /\ gm_pc = "spawned"
    /\ gm_task' = [gm_task EXCEPT !.status = "running"]
    /\ gm_pc' = "count"
    /\ UNCHANGED <<storeVars, poolVars, esVars, histVars, cbVars, psVars,
                   gm_threads, gm_reply, gm_total, gm_success, gm_observed>>

\* lines 1045-1078: count the subsectors; on failure set failed and return
GMCount ==
    /\ gm_pc = "count"
    /\ \E ok \in BOOLEAN :
          IF ok
          THEN /\ gm_pc' = "setup"
               /\ UNCHANGED gm_task
          ELSE /\ gm_task' = [gm_task EXCEPT !.status = "failed", !.error = TRUE]
               /\ gm_pc' = "exited"
    /\ UNCHANGED <<storeVars, poolVars, esVars, histVars, cbVars, psVars,
                   gm_threads, gm_reply, gm_total, gm_success, gm_observed>>

\* googlemaps_scraper setup_mongodb: the connection, or sys.exit(1)
setup_mongodb(connected) == IF connected THEN "connected" ELSE "SystemExit"

\* run_scraper lines 422-429 under run_gmaps_scrape_task lines 1104-1246:
\* "except Exception" does not catch SystemExit, in either function
GMSetup ==
    /\ gm_pc = "setup"
    /\ \E connected \in BOOLEAN :
          gm_pc' = IF setup_mongodb(connected) = "SystemExit" THEN "exited" ELSE "process"
    /\ UNCHANGED <<storeVars, poolVars, esVars, histVars, cbVars, psVars,
                   gm_task, gm_threads, gm_reply, gm_total, gm_success, gm_observed>>

\* termination_check (flask_app.py 1106-1153) as process_subsectors calls it:
\* the flag, then the record limit; otherwise the queue runs dry
GMProcess ==
    /\ gm_pc = "process"
    /\ IF gm_task.should_terminate
       THEN /\ gm_observed' = TRUE
            /\ gm_total' \in BOOLEAN
            /\ UNCHANGED gm_task
       ELSE /\ \E limit \in BOOLEAN :
                 IF limit
                 THEN /\ gm_task' = [gm_task EXCEPT !.limit_reached = TRUE, !.status = "completed"]
                      /\ gm_total' = TRUE
                 ELSE /\ gm_total' \in BOOLEAN
                      /\ UNCHANGED gm_task
            /\ UNCHANGED gm_observed
    /\ gm_pc' = "result"
    /\ UNCHANGED <<storeVars, poolVars, esVars, histVars, cbVars, psVars,
                   gm_threads, gm_reply, gm_success>>

\* run_scraper lines 457-465: success is False when termination_check() is true
GMResult ==
    /\ gm_pc = "result"
    /\ gm_success' = (~(gm_task.should_terminate \/ gm_task.limit_reached) /\ gm_total)
    /\ gm_observed' = (gm_observed \/ gm_task.should_terminate)
    /\ gm_pc' = "cleanup"
    /\ UNCHANGED <<storeVars, poolVars, esVars, histVars, cbVars, psVars,
                   gm_task, gm_threads, gm_reply, gm_total>>

\* run_scraper's finally has closed the driver; lines 1167-1246: the status,
\* the chained email job, the finally clause
GMFinish ==
    /\ gm_pc = "cleanup"
    /\ LET status == IF gm_task.limit_reached \/ gm_success THEN "completed" ELSE "failed"
           chain == (gm_task.limit_reached \/ gm_success) /\ gm_task.run_es_auto
       IN  IF chain
           THEN /\ gm_task' = [gm_task EXCEPT !.status = status, !.email_task_id = TRUE]
                /\ es_task' = NewEsTask(0)
                /\ es_pc' = "spawned"
                /\ es_threads' = TRUE
           ELSE /\ gm_task' = [gm_task EXCEPT !.status = status,
                                              !.error = (status = "failed") \/ @]
                /\ UNCHANGED <<es_task, es_pc, es_threads>>
    /\ gm_pc' = "exited"
    /\ UNCHANGED <<storeVars, poolVars, histVars, cbVars, psVars, es_pending, es_order, es_futures,
                   es_observed, gm_threads, gm_reply, gm_total, gm_success, gm_observed>>

\* ------------------------------------------------------------------ SpecStore
InitStore ==
    /\ website = [i \in Items |-> IF i = NItems THEN "N/A" ELSE "site"]
    /\ emailstatus = [i \in Items |-> "pending"]
    /\ processing_started_at = [i \in Items |-> {}]
    /\ recovery_note = [i \in Items |-> FALSE]
    /\ now = 0

InitPools ==
    /\ shutdown_flag = [p \in Pools |-> FALSE]
    /\ pc = [p \in Pools |-> "start"]
    /\ max_sites \in [Pools -> 0..MaxSites]
    /\ total_processed = [p \in Pools |-> 0]
    /\ pending_records = [p \in Pools |-> {}]
    /\ processing_records = [p \in Pools |-> <<>>]
    /\ records_batch = [p \in Pools |-> <<>>]
    /\ futures = [p \in Pools |-> NoFutures]
    /\ run_stats = [p \in Pools |-> ZeroStats]

InitEs ==
    /\ es_task = NoTask
    /\ es_threads = FALSE
    /\ es_pc = "none"
    /\ es_pending = <<>>
    /\ es_order = <<>>
    /\ es_futures = NoFutures
    /\ es_observed = FALSE

InitJobs ==
    /\ ps_task = NoPsTask
    /\ ps_pc = "none"
    /\ ps_threads = FALSE
    /\ ps_reply = "none"
    /\ ps_observed = FALSE
    /\ gm_task = NoGmTask
    /\ gm_pc = "none"
    /\ gm_threads = FALSE
    /\ gm_reply = "none"
    /\ gm_total = FALSE
    /\ gm_success = FALSE
    /\ gm_observed = FALSE

InitBreaker ==
    /\ failure_counts = [d \in Domains |-> 0]
    /\ circuit_open = {}
    /\ last_failure_time = [d \in Domains |-> {}]
    /\ unit = [u \in Units |-> IdleUnit]
    /\ harvests = 0
    /\ cb_fails = [d \in Domains |-> 0]
    /\ cb_last = [d \in Domains |-> {}]
    /\ th = [t \in Threads |-> IdleThread]
    /\ calls = 0
    /\ opened = [d \in Domains |-> 0]
    /\ raised = FALSE
    /\ sweep = [w \in Sweepers |-> IdleSweep]
    /\ es_task_data = [id \in TaskIds |-> NoRecord]
    /\ es_worker = [k \in Workers |-> FreeWorker]
    /\ q_doc = [d \in Subs |-> [scrapedsuccessfully |-> FALSE, processing |-> FALSE]]
    /\ q_worker = [g \in GWorkers |-> IdleGWorker]
    /\ q_claims = [g \in GWorkers |-> [d \in Subs |-> 0]]
    /\ page_lock = "free"
    /\ next_page_num = 1
    /\ stop_scraping = FALSE
    /\ pg_task = [kind |-> "none", should_terminate |-> FALSE]
    /\ pg_worker = [w \in PgWorkers |-> [pc |-> "unborn", page |-> 0]]
    /\ pg_fetched = [w \in PgWorkers |-> {}]
    /\ pg_handed = {}
    /\ conn = [l \in Layers |-> [pc |-> "idle", attempt |-> 0, slept |-> <<>>]]

InitHist ==
    /\ claimedBy = [i \in Items |-> <<>>]
    /\ refused = [i \in Items |-> {}]
    /\ handedTo = [i \in Items |-> {}]
    /\ recoveries = [i \in Items |-> 0]

vars == <<storeVars, poolVars, esVars, jobVars, cbVars, histVars>>

PoolStep(p) ==
        \/ MainStart(p)
        \/ LoopClaim(p)
        \/ MarkNext(p)
        \/ ClaimReturn(p)
        \/ SubmitNext(p)
        \/ AggregateNext(p)
        \/ BatchDone(p)
        \/ \E i \in Items : UnitRun(p, i)

PoolNext == \E p \in Pools : PoolStep(p)

EsNext ==
    \/ start_email_scrape
    \/ terminate_email_scraper_task
    \/ ESSetRunning
    \/ ESConnect
    \/ ESSubmitNext
    \/ ESCollect
    \/ ESFinish
    \/ \E i \in Items : ESUnitRun(i)

InitSpecStore == InitStore /\ InitPools /\ InitEs /\ InitJobs /\ InitBreaker /\ InitHist
NextStore == PoolNext \/ Tick \/ Recover
SpecStore == InitSpecStore /\ [][NextStore]_vars

\* ------------------------------------------------------------------ SpecRun
\* one CLI run, with its signals, and one API email job on the same collection
RunPools == {"p1"}
InitSpecRun == InitSpecStore /\ \A p \in Pools \ RunPools : max_sites[p] = 0
RunPoolNext == \E p \in RunPools : PoolStep(p)
RunSignalNext == \E p \in RunPools : signal_handler(p)
NextRun == RunPoolNext \/ RunSignalNext \/ EsNext
SpecRun == InitSpecRun /\ [][NextRun]_vars

\* ------------------------------------------------------------------ SpecAgg
\* one CLI run and one API email job on a collection, one after the other in
\* either order, with units that end in an exception
PoolIdle == \A p \in RunPools : pc[p] \in {"start", "done"}
EsIdle == es_pc \in {"none", "exited"}

AggPoolNext ==
    /\ EsIdle
    /\ \/ RunPoolNext
       \/ \E p \in RunPools : \E i \in Items : UnitRaise(p, i)

AggEsNext ==
    /\ PoolIdle
    /\ \/ EsNext
       \/ \E i \in Items : ESUnitRaise(i)

\* every record has a website here, so that a run has more records than one batch
InitStoreAllSites ==
    /\ website = [i \in Items |-> "site"]
    /\ emailstatus = [i \in Items |-> "pending"]
    /\ processing_started_at = [i \in Items |-> {}]
    /\ recovery_note = [i \in Items |-> FALSE]
    /\ now = 0

InitSpecAgg ==
    /\ InitStoreAllSites /\ InitPools /\ InitEs /\ InitJobs /\ InitBreaker /\ InitHist
    /\ \A p \in Pools \ RunPools : max_sites[p] = 0
NextAgg == AggPoolNext \/ AggEsNext
SpecAgg == InitSpecAgg /\ [][NextAgg]_vars

\* ------------------------------------------------------------------ SpecLimit
\* two CLI runs on a collection of NItems records with a website; the first
\* may have any --max-sites up to NItems, more than one batch
LimitPools == {"p1"}
InitSpecLimit ==
    /\ InitStoreAllSites /\ InitEs /\ InitJobs /\ InitBreaker /\ InitHist
    /\ shutdown_flag = [p \in Pools |-> FALSE]
    /\ pc = [p \in Pools |-> "start"]
    /\ max_sites \in [Pools -> 0..NItems]
    /\ \A p \in Pools \ LimitPools : max_sites[p] = 0
    /\ total_processed = [p \in Pools |-> 0]
    /\ pending_records = [p \in Pools |-> {}]
    /\ processing_records = [p \in Pools |-> <<>>]
    /\ records_batch = [p \in Pools |-> <<>>]
    /\ futures = [p \in Pools |-> NoFutures]
    /\ run_stats = [p \in Pools |-> ZeroStats]
NextLimit == PoolNext \/ \E p \in LimitPools : signal_handler(p)
SpecLimit == InitSpecLimit /\ [][NextLimit]_vars

\* ------------------------------------------------------------------ SpecJobs
\* the job pipeline of flask_app.py: postcode -> Google-Maps -> email
EsWorker ==
    \/ ESSetRunning
    \/ ESConnect
    \/ ESSubmitNext
    \/ ESCollect
    \/ ESFinish
    \/ \E i \in Items : ESUnitRun(i)

JobsNext ==
    \/ start_postcode_scrape
    \/ start_gmaps_scrape
    \/ terminate_postcode_task
    \/ terminate_gmaps_task
    \/ terminate_email_scraper_task
    \/ PSSetRunning
    \/ PSWait
    \/ PSFinish
    \/ GMSetRunning
    \/ GMCount
    \/ GMSetup
    \/ GMProcess
    \/ GMResult
    \/ GMFinish

InitSpecJobs == InitSpecStore /\ \A p \in Pools : max_sites[p] = 0
NextJobs == JobsNext \/ EsWorker
SpecJobs == InitSpecJobs /\ [][NextJobs]_vars

\* ------------------------------------------------------------------ SpecIds
\* start and terminate requests for email jobs, and the workers of the jobs
IdsNext ==
    \/ \E k \in Workers : \E c \in Colls : StartEs(k, c)
    \/ \E id \in TaskIds : TerminateEs(id)
    \/ \E k \in Workers : WorkerRunning(k) \/ WorkerCollect(k) \/ WorkerFinish(k)

InitSpecIds == InitSpecJobs
SpecIds == InitSpecIds /\ [][IdsNext]_vars

\* ------------------------------------------------------------------ SpecQueue
\* process_subsectors calls on one queue collection
QueueNext ==
    \E g \in GWorkers : QStart(g) \/ QTerminate(g) \/ QIter(g) \/ QTop(g) \/ QAttempts(g)

InitSpecQueue == InitSpecJobs
SpecQueue == InitSpecQueue /\ [][QueueNext]_vars

\* ------------------------------------------------------------------ SpecPages
\* the worker threads of one postcode task
PagesNext ==
    \/ \E kind \in {"api", "cli"} : PgStart(kind)
    \/ PgTerminate
    \/ \E w \in PgWorkers :
          PgAcquire(w) \/ PgCheck(w) \/ PgGet(w) \/ PgSet(w) \/ PgFetch(w) \/ PgSetStop(w)

InitSpecPages == InitSpecJobs
SpecPages == InitSpecPages /\ [][PagesNext]_vars

\* ------------------------------------------------------------------ SpecConn
\* one setup_mongodb call in each connection layer
ConnNext == \E l \in Layers : ConnStart(l) \/ ConnOk(l) \/ ConnFail(l) \/ ConnUnexpected(l)

InitSpecConn == InitSpecJobs
SpecConn == InitSpecConn /\ [][ConnNext]_vars

\* ------------------------------------------------------------------ SpecBreaker
\* the units of one process scraping sites of a few domains, and the clock
HarvestNext ==
    \E u \in Units :
        \/ \E d \in Domains : HarvestCheck(u, d)
        \/ HarvestRequests(u)
        \/ HarvestSelenium(u)
        \/ HarvestContacts(u)
        \/ HarvestFinal(u)

InitSpecBreaker == InitSpecJobs
NextBreaker == HarvestNext \/ Tick
SpecBreaker == InitSpecBreaker /\ [][NextBreaker]_vars

RaceNext ==
    \E t \in Threads :
        \/ \E d \in RaceDomains : CallRecordFailure(t, d)
        \/ \E d \in RaceDomains : CallIsOpen(t, d)
        \/ CallRecordSuccess(t)
        \/ Rf50Read(t)
        \/ Rf50Write(t)
        \/ Rf51(t)
        \/ Rf52(t)
        \/ Rf54(t)
        \/ Rf55(t)
        \/ Io68(t)
        \/ Io71(t)
        \/ Io72(t)
        \/ Io73(t)
        \/ Io74(t)
        \/ Io75(t)
        \/ Io76(t)
        \/ Rs92(t)
        \/ Rs94(t)
        \/ Rs95(t)
        \/ Rs96(t)
        \/ Rs98(t)
        \/ Rs99(t)

InitSpecRace == InitSpecJobs
NextRace == RaceNext \/ Tick
SpecRace == InitSpecRace /\ [][NextRace]_vars


SweepNext ==
    \E w \in Sweepers :
        \/ SweepStart(w)
        \/ \E i \in Items : SweepDoc(w, i)
        \/ SweepReturn(w)

InitSpecSweep == InitSpecJobs
NextSweep == RunPoolNext \/ SweepNext \/ Tick
SpecSweep == InitSpecSweep /\ [][NextSweep]_vars

\* ------------------------------------------------------------------ claims
Range(f) == {f[x] : x \in DOMAIN f}

\* C1: at most one claimant. However many claim calls run concurrently on the
\* collection, mark_record_as_processing returns True for a record at most once
\* more than the record has been swept back to pending; with no sweep of the
\* record, at most one caller ever gets True for it, and the result lists of two
\* claim calls in progress share no record.
C1_AtMostOneClaimant ==
    /\ \A i \in Items : Len(claimedBy[i]) <= recoveries[i] + 1
    /\ \A p, q \in Pools : \A i \in Items :
          (/\ p # q
           /\ recoveries[i] = 0
           /\ i \in Range(processing_records[p])) => i \notin Range(processing_records[q])

\* two runs found the same pending record, one got True and the other False
C1_Witness ==
    \E i \in Items : \E p, q \in Pools :
        /\ p # q
        /\ recoveries[i] = 0
        /\ claimedBy[i] = <<p>>
        /\ q \in refused[i]
        /\ i \in Range(processing_records[p])

\* C2: every change of an item's emailstatus is pending -> processing,
\* processing -> a terminal status, or processing -> pending by the sweep; no
\* terminal status is written onto a pending item and a terminal status is
\* never changed again.
C2_TransitionInvariant ==
    [][\A i \in Items :
          emailstatus'[i] # emailstatus[i] =>
             \/ emailstatus[i] = "pending" /\ emailstatus'[i] = "processing"
             \/ emailstatus[i] = "processing" /\ emailstatus'[i] \in Terminal
             \/ /\ emailstatus[i] = "processing" /\ emailstatus'[i] = "pending"
                /\ recoveries'[i] = recoveries[i] + 1]_vars

\* C3: every record an email job hands to process_business_record was first
\* moved pending -> processing by that job.
C3_ProcessedOnlyIfClaimed ==
    \A i \in Items : handedTo[i] \subseteq Range(claimedBy[i])

\* C4: cooperative cancellation ends in terminated. For every job kind, once
\* the worker has read its termination flag as set and has exited, the status
\* of the job is terminated, not completed or failed.
C4_CancelledEndsTerminated ==
    /\ (ps_pc = "exited" /\ ps_observed) => ps_task.status = "terminated"
    /\ (gm_pc = "exited" /\ gm_observed) => gm_task.status = "terminated"
    /\ (es_pc = "exited" /\ es_observed) => es_task.status = "terminated"

\* C5: no chaining after termination or failure. The step that creates the
\* chained job (and records its id in the parent) is never taken when the
\* parent's termination flag is set or the parent has failed.
C5_NoChainAfterTermination ==
    [][/\ (~ps_task.gmaps_task_id /\ ps_task'.gmaps_task_id) =>
             ~ps_task.should_terminate /\ ps_task'.status # "failed"
       /\ (~gm_task.email_task_id /\ gm_task'.email_task_id) =>
             ~gm_task.should_terminate /\ gm_task'.status # "failed"]_vars

\* C6: chained-stage cascade. A terminate request on a parent job that has a
\* recorded child id, while the child is starting or running, sets the child's
\* should_terminate flag.
C6_TerminateCascades ==
    [][/\ (/\ ps_reply' # ps_reply
           /\ ps_task.gmaps_task_id
           /\ gm_task.status \in {"starting", "running"}) => gm_task'.should_terminate
       /\ (/\ gm_reply' # gm_reply
           /\ gm_task.email_task_id
           /\ es_task.status \in {"starting", "running"}) => es_task'.should_terminate]_vars

\* C7: no job stuck in running. In every state where the worker thread of a
\* job has exited, the job's status is completed, failed or terminated.
C7_ExitedIsTerminal ==
    /\ ps_pc = "exited" => ps_task.status \in TerminalJob
    /\ gm_pc = "exited" => gm_task.status \in TerminalJob
    /\ es_pc = "exited" => es_task.status \in TerminalJob

C9_OpenDomainNotDispatched ==
    \A u \in Units :
        unit[u].was_open =>
            /\ unit[u].fetches = 0
            /\ unit[u].pc = "done"
            /\ unit[u].status = "failed_circuit_breaker"
            /\ ~unit[u].emails

\* a call was refused at the check while the circuit of its domain was open
C9_Witness ==
    \E u \in Units :
        /\ unit[u].pc = "done" /\ unit[u].was_open
        /\ unit[u].status = "failed_circuit_breaker"
        /\ unit[u].domain \in circuit_open

\* less than reset_timeout has passed since the last record_failure(d) call
SinceLastFailure(d) == \E t \in cb_last[d] : now - t < ResetTimeout

\* C10: circuit breaker threshold. With at least failure_threshold
\* record_failure(d) calls since the last reset and less than reset_timeout
\* since the last of them, is_open(d) returns true; with fewer than
\* failure_threshold failures since the last reset it returns false.
C10_BreakerThreshold ==
    \A d \in Domains :
        /\ (cb_fails[d] >= FailureThreshold /\ SinceLastFailure(d)) => is_open_result(d)
        /\ cb_fails[d] < FailureThreshold => ~is_open_result(d)

\* the third consecutive failure of a domain has just opened its circuit, while
\* another domain with fewer failures stays closed
C10_Witness ==
    \E d, e \in Domains :
        /\ cb_fails[d] = FailureThreshold /\ SinceLastFailure(d) /\ is_open_result(d)
        /\ cb_fails[e] > 0 /\ cb_fails[e] < FailureThreshold /\ ~is_open_result(e)

\* C14: opening happens once. Between two consecutive closings of a domain (by
\* a success or by expiry) the open transition, the OPENED log line with the
\* circuit_open.add, is executed at most once, also when several pool threads
\* call record_failure on the shared breaker at the same time.
C14_OpenedOnce == \A d \in Domains : opened[d] <= 1

\* a harvest_site_emails call returns found or checked_no_email in this step
\* directly after record_success(domain): the early return (line 150) after a
\* main-page load that succeeded (line 118), or the final status at line 257
SuccessReturn(u) ==
    /\ unit[u].pc \in {"selenium", "final"}
    /\ unit'[u].pc = "done"
    /\ unit'[u].status \in {"found", "checked_no_email"}
    /\ unit[u].pc = "selenium" => ~unit'[u].error_message

\* C11: a single success fully heals a domain. After record_success(d), whatever
\* the failure count was and whether d was open or closed, d has no failure
\* count, no last-failure time and is not open, is_open(d) is false, and d is
\* open again only after failure_threshold record_failure(d) calls made since.
C11_SuccessHeals ==
    /\ [][\A u \in Units : SuccessReturn(u) =>
              LET d == unit[u].domain
              IN  /\ failure_counts'[d] = 0
                  /\ last_failure_time'[d] = {}
                  /\ d \notin circuit_open'
                  /\ ~is_open_result(d)']_vars
    /\ [](\A d \in Domains : d \in circuit_open => cb_fails[d] >= FailureThreshold)

\* a call has returned found for a domain on which another call recorded a
\* failure, and the domain is left without count, time and open mark
C11_Witness ==
    \E u, v \in Units :
        /\ u # v /\ unit[u].domain = unit[v].domain
        /\ unit[u].pc = "done" /\ unit[u].status = "found"
        /\ unit[v].pc = "contacts" /\ cb_last[unit[v].domain] # {}
        /\ failure_counts[unit[u].domain] = 0
        /\ last_failure_time[unit[u].domain] = {}
        /\ unit[u].domain \notin circuit_open

\* this step is the is_open(d) call of unit u (scraper.py line 68); a call that
\* leaves every unit as it was is a repeated refusal
IsOpenCall(u, d) ==
    /\ harvests' = harvests + 1
    /\ unit[u].pc \in {"idle", "done"}
    /\ unit'[u].pc \in {"requests", "done"}
    /\ unit'[u].domain = d
    /\ \/ unit'[u] # unit[u]
       \/ unit' = unit /\ unit[u].was_open

\* more than reset_timeout has passed since the stored last failure of d
TimedOut(d) == \E t \in last_failure_time[d] : now - t > ResetTimeout

\* C12: lazy expiry. An is_open(d) call on an open domain made when
\* now - last_failure_time[d] > reset_timeout returns false, with no reset call
\* by anyone, and removes the failure count, the last-failure time and the open
\* mark of d; before the timeout it returns true and changes nothing; and an
\* open domain always has failure_threshold failures since its last reset.
C12_LazyExpiry ==
    /\ [][\A u \in Units, d \in Domains :
              (IsOpenCall(u, d) /\ d \in circuit_open) =>
                  IF TimedOut(d)
                  THEN /\ ~unit'[u].was_open
                       /\ unit'[u].pc = "requests"
                       /\ failure_counts'[d] = 0
                       /\ last_failure_time'[d] = {}
                       /\ d \notin circuit_open'
                  ELSE /\ unit'[u].was_open
                       /\ d \in circuit_open'
                       /\ failure_counts'[d] = failure_counts[d]
                       /\ last_failure_time'[d] = last_failure_time[d]]_vars
    /\ [](\A d \in Domains :
              d \in circuit_open => cb_fails[d] >= FailureThreshold /\ cb_last[d] # {})

\* a call was refused while the domain was open, and a later call, made more
\* than reset_timeout after the last failure, has been let through and has
\* left the domain without count, time and open mark
C12_Witness ==
    \E u, v \in Units :
        /\ u # v /\ unit[u].domain = unit[v].domain
        /\ unit[v].pc = "done" /\ unit[v].status = "failed_circuit_breaker"
        /\ unit[u].pc = "requests" /\ ~unit[u].was_open
        /\ \E t \in cb_last[unit[u].domain] : now - t > ResetTimeout
        /\ failure_counts[unit[u].domain] = 0
        /\ last_failure_time[unit[u].domain] = {}
        /\ unit[u].domain \notin circuit_open

\* C13: old failures are forgotten. The failure count and last-failure time of
\* a domain are reset once reset_timeout has passed since its last failure,
\* open or not: a failure recorded more than reset_timeout after the previous
\* one starts the count again at one and does not open the domain.
C13_OldFailuresForgotten ==
    [][\A d \in Domains :
          (failure_counts'[d] > failure_counts[d] /\ TimedOut(d)) =>
              /\ failure_counts'[d] = 1
              /\ d \notin circuit_open']_vars

\* what a sweep run on the present collection would leave and return
SweepNow == SweepStore(emailstatus, processing_started_at, recovery_note, cutoff_time)

\* C15: recover_stale_processing_records moves to pending exactly the items
\* that are processing with processing_started_at earlier than
\* now - max_processing_time, removes their processing_started_at, sets their
\* recovery_note and returns the number of items moved; every other item
\* (processing but not stale, pending, terminal) is left as it was. Stated of
\* the sweep of every reachable collection and of every step in which a sweep
\* moves an item.
C15_SweepExact ==
    /\ [](\A i \in Items :
              IF /\ emailstatus[i] = "processing"
                 /\ processing_started_at[i] # {}
                 /\ \A t \in processing_started_at[i] : t < now - StaleAge
              THEN /\ SweepNow.emailstatus[i] = "pending"
                   /\ SweepNow.processing_started_at[i] = {}
                   /\ SweepNow.recovery_note[i]
              ELSE /\ SweepNow.emailstatus[i] = emailstatus[i]
                   /\ SweepNow.processing_started_at[i] = processing_started_at[i]
                   /\ SweepNow.recovery_note[i] = recovery_note[i])
    /\ [](SweepNow.count =
              Cardinality({i \in Items : emailstatus[i] = "processing"
                                          /\ SweepNow.emailstatus[i] = "pending"}))
    /\ [][recoveries' # recoveries =>
              /\ emailstatus' = SweepNow.emailstatus
              /\ processing_started_at' = SweepNow.processing_started_at
              /\ recovery_note' = SweepNow.recovery_note
              /\ \A i \in Items :
                    recoveries'[i] = recoveries[i] +
                        (IF emailstatus[i] = "processing" /\ emailstatus'[i] = "pending"
                         THEN 1 ELSE 0)]_vars

\* a sweep has moved one item, next to an item that is processing and not
\* stale and an item that was never claimed
C15_Witness ==
    \E i, j, k \in Items :
        /\ recoveries[i] = 1 /\ emailstatus[i] = "pending"
        /\ recovery_note[i] /\ processing_started_at[i] = {}
        /\ emailstatus[j] = "processing" /\ ~recovery_note[j]
        /\ \E t \in processing_started_at[j] : ~(t < now - StaleAge)
        /\ emailstatus[k] = "pending" /\ claimedBy[k] = <<>> /\ ~recovery_note[k]

\* a second sweep, run directly on what a sweep of the present collection leaves
SweepTwice ==
    SweepStore(SweepNow.emailstatus, SweepNow.processing_started_at,
               SweepNow.recovery_note, cutoff_time)

RECURSIVE SumOver(_, _)
SumOver(f, S) ==
    IF S = {} THEN 0
    ELSE LET x == CHOOSE y \in S : TRUE IN f[x] + SumOver(f, S \ {x})

\* the items that go from processing to pending in this step
MovedInStep == {i \in Items : emailstatus[i] = "processing" /\ emailstatus'[i] = "pending"}

\* C17: racing sweepers are safe. With several
\* recover_stale_processing_records calls running at the same time as each
\* other and as claims, an item is moved to pending at most once per claim of
\* it, every count a sweep adds stands for one item that was processing, and
\* older than that sweep's cutoff, at the moment of the update, and the counts
\* of the sweeps add up to the number of moves processing -> pending.
C17_RacingSweepsSafe ==
    /\ [](\A i \in Items : recoveries[i] <= Len(claimedBy[i]))
    /\ [](SumOver([w \in Sweepers |-> sweep[w].count], Sweepers)
            = SumOver(recoveries, Items))
    /\ [][/\ \A w \in Sweepers :
                 sweep'[w].count # sweep[w].count =>
                     /\ sweep'[w].count = sweep[w].count + 1
                     /\ Cardinality(MovedInStep) = 1
                     /\ \A i \in MovedInStep :
                           /\ \E t \in processing_started_at[i] : t < sweep[w].cutoff
                           /\ processing_started_at'[i] = {}
          /\ \A i \in Items :
                 recoveries'[i] = recoveries[i] + (IF i \in MovedInStep THEN 1 ELSE 0)
          /\ MovedInStep # {} => \E w \in Sweepers : sweep'[w].count # sweep[w].count]_vars

\* two sweeps are in progress at once on a collection the run is claiming
\* from; both have passed a stale item, one of them moved it and counts 1, the
\* other counts 0
C17_Witness ==
    \E i \in Items :
        /\ recoveries[i] = 1
        /\ \A w \in Sweepers : sweep[w].pc = "update" /\ i \notin sweep[w].todo
                                 /\ sweep[w].cutoff > 0
        /\ \E w, x \in Sweepers : sweep[w].count = 1 /\ sweep[x].count = 0

\* C18: claimed_at invariant. In every reachable state of the collection an
\* item carries processing_started_at if and only if its emailstatus is
\* processing: the claim sets the field and every transition out of
\* processing, the result write-back as well as the sweep, removes it.
C18_ClaimedAtIffProcessing ==
    \A i \in Items : (processing_started_at[i] # {}) <=> (emailstatus[i] = "processing")

\* the bound of the claim call of run p: min(batch_size, limit), or batch_size
\* when limit = 0; main() passes limit = current_batch_size
ClaimBound(p) ==
    LET limit == current_batch_size(p)
    IN  IF limit = 0 THEN BatchSize
        ELSE IF limit < BatchSize THEN limit ELSE BatchSize

\* the records in the result list of the claim call of run p
Claimed(p) == Range(processing_records[p])

\* C19: result of a claim call. get_pending_records_atomic returns at most
\* min(batch_size, limit) records (batch_size when limit = 0); every returned
\* record had a website other than "", null, "N/A", was pending and was moved
\* to processing by this call; a candidate whose conditional update fails is
\* left out of the result, and the call neither retries it nor takes another
\* candidate in its place.
C19_ClaimResult ==
    /\ [](\A p \in Pools : pc[p] = "marking" =>
              /\ Len(processing_records[p]) + Cardinality(pending_records[p]) <= ClaimBound(p)
              /\ Cardinality(Claimed(p)) = Len(processing_records[p])
              /\ Claimed(p) \cap pending_records[p] = {}
              /\ \A i \in Claimed(p) :
                    website[i] \notin {"", "N/A"} /\ p \in Range(claimedBy[i]))
    /\ [][\A p \in Pools : (pc[p] = "marking" /\ pc'[p] = "marking") =>
              /\ pending_records'[p] \subseteq pending_records[p]
              /\ \A i \in pending_records[p] \ pending_records'[p] :
                    IF emailstatus[i] = "pending"
                    THEN /\ processing_records'[p] = Append(processing_records[p], i)
                         /\ emailstatus'[i] = "processing"
                         /\ processing_started_at'[i] = {now}
                    ELSE /\ processing_records'[p] = processing_records[p]
                         /\ emailstatus'[i] = emailstatus[i]
                         /\ processing_started_at'[i] = processing_started_at[i]
              /\ \A i \in Items :
                    (i \in Range(processing_records'[p]) /\ i \notin Claimed(p)) =>
                        (i \in pending_records[p] /\ emailstatus[i] = "pending"
                                                  /\ emailstatus'[i] = "processing")]_vars

\* a claim call has returned one record although it found two candidates:
\* the conditional update of the other failed after a racing run took it
C19_Witness ==
    \E p, q \in Pools : \E i, j \in Items :
        /\ p # q /\ i # j
        /\ pc[p] = "submit"
        /\ processing_records[p] = <<i>>
        /\ p \in refused[j] /\ q \in Range(claimedBy[j])
        /\ max_sites[p] = 0

\* the items eligible for a claim in the initial collection, where all are pending
Eligible == {i \in Items : website[i] \notin {"", "N/A"}}

\* every run was started with --max-sites 1, so that it makes one claim call,
\* of batch size 1, and that call has returned; no sweep has moved an item
OneCallEach ==
    /\ \A p \in Pools : max_sites[p] = 1 /\ pc[p] \in {"submit", "await", "done"}
    /\ \A i \in Items : recoveries[i] = 0

\* C20: claim completeness under contention. With N claimers each making one
\* claim call of batch size B at the same time against M eligible pending
\* items, the union of the claimed items has no duplicates and holds exactly
\* min(N*B, M) items. Here N is the number of runs and B = 1.
C20_ClaimComplete ==
    OneCallEach =>
        /\ \A i \in Items : Len(claimedBy[i]) <= 1
        /\ Cardinality({i \in Items : claimedBy[i] # <<>>}) =
               (IF Cardinality(Pools) < Cardinality(Eligible)
                THEN Cardinality(Pools) ELSE Cardinality(Eligible))

\* run p ends in this step, with no shutdown request and its --max-sites limit
\* not reached
EndsUnforced(p) ==
    /\ pc[p] # "done" /\ pc'[p] = "done"
    /\ ~shutdown_flag[p]
    /\ ~(max_sites[p] > 0 /\ total_processed'[p] >= max_sites[p])

\* C21: temporarily empty versus drained. A run that is neither cancelled nor
\* stopped by its max-sites limit does not finish while eligible pending items
\* remain, also when its last claim call returned an empty list because racing
\* claimers took all its candidates.
C21_NoFinishWhilePending ==
    [][\A p \in Pools :
          EndsUnforced(p) => ~\E i \in Items : PendingQuery(emailstatus', i)]_vars

\* C22: batch-synchronous execution. process_batch returns, and with it the
\* next claim call can be issued, only when every unit submitted from the batch
\* has completed and its outcome has been aggregated; outside process_batch a
\* run has no unit in flight, and every unit in flight belongs to the batch of
\* the run's last claim call.
C22_BatchSynchronous ==
    /\ [][\A p \in Pools :
              (pc[p] = "await" /\ pc'[p] # "await") =>
                  \A i \in Items : futures[p][i] \in {"none", "agg"}]_vars
    /\ [](\A p \in Pools : \A i \in Items :
              futures[p][i] # "none" =>
                  /\ pc[p] \in {"submit", "await"}
                  /\ i \in Range(processing_records[p]))

\* a run that has aggregated the unit of an earlier batch has a unit of a
\* later batch in flight
C22_Witness ==
    \E p \in Pools : \E i, j \in Items :
        /\ i # j
        /\ run_stats[p].processed > 0
        /\ p \in handedTo[i] /\ futures[p][i] = "none"
        /\ futures[p][j] = "run"

\* ---- C23, C24: aggregation of a batch (SpecAgg)
Submitted(w) == Cardinality({i \in Items : w \in handedTo[i]})

\* the step in which the collecting loop takes the future of unit i of run p
Collects(p, i) == futures[p][i] \in Results /\ futures'[p][i] = "agg"
ESCollects(i) == es_futures[i] \in Results /\ es_futures'[i] = "agg"

\* C23: an exception that escapes one unit is caught where its future is
\* collected: that step adds exactly one to failed and to processed, changes no
\* other counter, and leaves the run where it was with every other future
\* untouched; the other units of the batch and of later batches are still
\* counted, so that between batches and at the end processed is the number of
\* units submitted.  The same for the email job of the API.
C23_FailureIsolated ==
    /\ [][\A p \in Pools : \A i \in Items :
              (Collects(p, i) /\ futures[p][i] = "exception") =>
                  /\ run_stats'[p] = [run_stats[p] EXCEPT !.processed = @ + 1,
                                                          !.failed = @ + 1]
                  /\ pc'[p] = pc[p]
                  /\ \A j \in Items \ {i} : futures'[p][j] = futures[p][j]]_vars
    /\ [][\A i \in Items :
              (ESCollects(i) /\ es_futures[i] = "exception") =>
                  /\ es_task'.stats = [es_task.stats EXCEPT !.processed = @ + 1,
                                                            !.failed = @ + 1]
                  /\ es_pc' = es_pc
                  /\ \A j \in Items \ {i} : es_futures'[j] = es_futures[j]]_vars
    /\ [](\A p \in Pools :
              pc[p] \in {"loop", "done"} => run_stats[p].processed = Submitted(p))
    /\ [](es_pc = "exited" => es_task.stats.processed = Submitted("ES"))

\* a run of two batches has ended: one unit raised and left its record in
\* processing, the two others were counted as found
C23_Witness ==
    \E p \in Pools : \E i \in Items :
        /\ pc[p] = "done"
        /\ p \in handedTo[i] /\ emailstatus[i] = "processing"
        /\ run_stats[p] = [processed |-> 3, found |-> 2, checked_no_email |-> 0,
                           failed |-> 1, skipped |-> 0]

\* the counter a returned status belongs to
CounterOf(res_status) ==
    CASE res_status = "found" -> "found"
      [] res_status = "checked_no_email" -> "checked_no_email"
      [] res_status \in {"failed_domain_unreachable", "exception"} -> "failed"
      [] res_status \in {"skipped_invalid_url", "skipped_shutdown"} -> "skipped"

Balanced(stats) ==
    stats.processed = stats.found + stats.checked_no_email + stats.failed + stats.skipped

\* C24: every collected unit adds one to processed and one to the counter of
\* its status and to no other; after every aggregation step processed is the
\* sum of found, checked_no_email, failed and skipped; at the end of a run
\* processed is the number of units submitted.
C24_AggregationExact ==
    /\ [][\A p \in Pools : \A i \in Items :
              Collects(p, i) =>
                  run_stats'[p] = [run_stats[p] EXCEPT
                                      !.processed = @ + 1,
                                      ![CounterOf(futures[p][i])] = @ + 1]]_vars
    /\ [][\A i \in Items :
              ESCollects(i) =>
                  es_task'.stats = [es_task.stats EXCEPT
                                       !.processed = @ + 1,
                                       ![CounterOf(es_futures[i])] = @ + 1]]_vars
    /\ [](\A p \in Pools : Balanced(run_stats[p]))
    /\ [](Balanced(es_task.stats))
    /\ [](\A p \in Pools : pc[p] = "done" => run_stats[p].processed = Submitted(p))
    /\ [](es_task.status \in {"completed", "terminated"} /\ es_pc = "exited" =>
              es_task.stats.processed = Submitted("ES"))

\* a job has ended with one unit in each of three counters
C24_Witness ==
    /\ es_pc = "exited"
    /\ es_task.stats = [processed |-> 3, found |-> 1, checked_no_email |-> 1,
                        failed |-> 0, skipped |-> 1]

\* ---- C25: job lifecycle (SpecJobs)
\* C25: in every terminal state (completed, failed, terminated) the record of
\* a job carries an end timestamp.  Stated for the email job, the only job
\* whose record is ever given an end_time.
C25_TerminalHasEndTime == es_task.status \in TerminalJob => es_task.end_time

\* ---- C26: connection setup that fails (SpecJobs)
\* C26: when every connection attempt of setup_mongodb has failed, the stage
\* ends with its job marked failed, for the email job and for the Google-Maps
\* job alike.
C26_SetupFailureMarksFailed ==
    [][/\ (es_pc = "connect" /\ es_pc' = "exited" /\ es_task'.status # "completed"
              => es_task'.status = "failed")
       /\ (gm_pc = "setup" /\ gm_pc' = "exited" => gm_task'.status = "failed")]_vars

\* ---- C27: the registries of live threads (SpecJobs)
\* C27: when the worker thread of a job has exited, the job's entry has been
\* removed from es_threads, gm_threads or ps_threads.
C27_RegistryCleaned ==
    /\ (es_pc = "exited" => ~es_threads)
    /\ (gm_pc = "exited" => ~gm_threads)
    /\ (ps_pc = "exited" => ~ps_threads)

\* ---- C28, C29: shutdown and the units of a batch (SpecRun)
ClaimedByRun(p) == {i \in Items : \E k \in DOMAIN claimedBy[i] : claimedBy[i][k] = p}

\* C28: when a CLI run has ended after a shutdown request, no record that the
\* run claimed still has emailstatus processing.
C28_NoClaimAbandoned ==
    \A p \in Pools :
        (pc[p] = "done" /\ shutdown_flag[p]) =>
            \A i \in ClaimedByRun(p) : emailstatus[i] # "processing"

\* C29: a unit that begins to run after shutdown (of the CLI run) or
\* termination (of the API email job) was requested does no scraping, writes
\* nothing and returns skipped_shutdown.
C29_LateUnitSkips ==
    /\ [][\A p \in Pools : \A i \in Items :
              (/\ shutdown_flag[p]
               /\ futures[p][i] \in {"run", "run_skip"}
               /\ futures'[p][i] \notin {"run", "run_skip"})
              => /\ futures'[p][i] = "skipped_shutdown"
                 /\ emailstatus'[i] = emailstatus[i]]_vars
    /\ [][\A i \in Items :
              (/\ es_task.should_terminate
               /\ es_futures[i] \in {"run", "run_skip"}
               /\ es_futures'[i] \notin {"run", "run_skip"})
              => /\ es_futures'[i] = "skipped_shutdown"
                 /\ emailstatus'[i] = emailstatus[i]]_vars

\* ---- C30: failures recorded by one unit (SpecBreaker)
\* C30: one unit adds at most one to the failure count of its domain, so the
\* count of a domain never exceeds the number of units started, and no circuit
\* is open before failure_threshold units have been started.
C30_OneFailurePerUnit ==
    \A d \in Domains :
        /\ failure_counts[d] <= harvests
        /\ (d \in circuit_open => harvests >= FailureThreshold)

\* ---- C31: outcome and breaker (SpecBreaker)
\* unit u returns from harvest_site_emails in this step
HarvestReturns(u) == unit[u].pc \notin {"idle", "done"} /\ unit'[u].pc = "done"
\* no other unit is inside harvest_site_emails for the domain of u
AloneOnDomain(u) ==
    \A v \in Units \ {u} :
        unit[v].pc \in {"idle", "done"} \/ unit[v].domain # unit[u].domain

\* C31: outcome and breaker agree. When harvest_site_emails returns found or
\* checked_no_email for domain d, with no concurrent unit on d, the failure
\* count of d is zero and d is not open on return; when it returns a failed
\* status other than failed_circuit_breaker, the call has increased the
\* failure count of d.
C31_OutcomeAgrees ==
    [][\A u \in Units :
          (HarvestReturns(u) /\ AloneOnDomain(u)) =>
              LET d == unit[u].domain
                  st == unit'[u].status
              IN  /\ st \in {"found", "checked_no_email"} =>
                         failure_counts'[d] = 0 /\ d \notin circuit_open'
                  /\ (IsFailed(st) /\ st # "failed_circuit_breaker") =>
                         failure_counts'[d] > failure_counts[d]]_vars

\* ---- C32: a refused unit and the breaker (SpecBreaker)
\* C32: a unit rejected with failed_circuit_breaker changes neither the failure
\* count nor the last-failure time nor the open mark of its domain; the
\* last-failure time of an open domain is the time of its last record_failure
\* call, and a unit that arrives more than reset_timeout after it is let
\* through, whatever units were refused in between.
C32_RefusedUnitLeavesBreaker ==
    /\ [][\A u \in Units, d \in Domains :
              (IsOpenCall(u, d) /\ unit'[u].status = "failed_circuit_breaker") =>
                  /\ failure_counts'[d] = failure_counts[d]
                  /\ last_failure_time'[d] = last_failure_time[d]
                  /\ d \in circuit_open /\ d \in circuit_open']_vars
    /\ [](\A d \in circuit_open : last_failure_time[d] = cb_last[d])
    /\ [][\A u \in Units, d \in Domains :
              (/\ IsOpenCall(u, d) /\ d \in circuit_open
               /\ \E t \in cb_last[d] : now - t > ResetTimeout)
              => unit'[u].pc = "requests"]_vars

\* a unit was refused on an open domain after the time of the last failure,
\* and a unit arriving after the timeout has been let through
C32_Witness ==
    \E u, v \in Units :
        /\ u # v
        /\ unit[u].pc = "done" /\ unit[u].status = "failed_circuit_breaker"
        /\ unit[v].pc = "requests" /\ unit[v].domain = unit[u].domain
        /\ failure_counts[unit[u].domain] = 0
        /\ \E t \in cb_last[unit[u].domain] : now - t > ResetTimeout

\* ---- C33: the shared breaker under concurrent calls (SpecRace)
\* C33: for every interleaving of record_failure, record_success and is_open
\* calls of several pool threads, whenever no call is under way a domain in
\* circuit_open has failure_counts[d] >= failure_threshold and a
\* last_failure_time[d], and no call fails on a missing key or set member.
C33_BreakerConsistent ==
    /\ ~raised
    /\ (\A t \in Threads : th[t].pc = "idle") =>
           \A d \in circuit_open :
               /\ ReachedThreshold(failure_counts[d])
               /\ last_failure_time[d] # {}

\* ---- C34: terminal statuses (SpecJobs)
\* C34: once the status of a task record is completed, failed or terminated,
\* no later step (a terminate endpoint, the job's own worker, a parent's
\* cascade, the limit check of the Google-Maps job) changes it.
C34_TerminalAbsorbing ==
    [][/\ (es_task.status \in TerminalJob => es_task'.status = es_task.status)
       /\ (ps_task.status \in TerminalJob => ps_task'.status = ps_task.status)
       /\ (gm_task.status \in TerminalJob => gm_task'.status = gm_task.status)]_vars

\* ---- C35: task ids (SpecIds)
\* the start request served in this step assigns task id id
Assigns(id) ==
    \E k \in Workers :
        es_worker[k].pc = "free" /\ es_worker'[k].pc = "spawned" /\ es_worker'[k].task_id = id

\* C35: a start request never assigns a task id that is present in the
\* registry with a non-terminal status, so it never overwrites the record of a
\* job whose worker is still running.
C35_IdsUniqueAmongLive ==
    [][\A id \in TaskIds :
          Assigns(id) => es_task_data[id].status \in {"none"} \cup TerminalJob]_vars

\* ---- C36, C37: the subsector queue (SpecQueue)
\* C36: in the mode "all unprocessed subsectors", with no termination request,
\* a run claims each subsector at most once, also when a subsector gave no
\* results and was released with scrapedsuccessfully still false.
C36_ClaimedOncePerRun ==
    \A g \in GWorkers : \A d \in Subs :
        (q_worker[g].mode = "all" /\ ~q_worker[g].stop) => q_claims[g][d] <= 1

\* C37: a subsector is held by at most one process_subsectors call at a time,
\* and a subsector whose processing field is true is held by a call that has
\* not returned (a run that stops, on a termination request or otherwise,
\* leaves none of its subsectors with processing = true).
C37_ClaimExclusive ==
    /\ \A d \in Subs : Cardinality({g \in GWorkers : q_worker[g].doc = d}) <= 1
    /\ \A d \in Subs : q_doc[d].processing =>
           \E g \in GWorkers : q_worker[g].doc = d /\ q_worker[g].pc \in {"top", "attempts"}

\* ---- C38: the --max-sites bound (SpecLimit)
\* the number of records run p has moved from pending to processing
ClaimsOf(p) ==
    Cardinality(UNION {{<<i, k>> : k \in {n \in DOMAIN claimedBy[i] : claimedBy[i][n] = p}} :
                       i \in Items})

\* C38: a CLI run started with --max-sites L > 0 never moves more than L
\* records to processing, and once it has moved L records it has no candidate
\* left to mark and does not come back to the head of its claiming loop.
C38_MaxSitesBound ==
    \A p \in Pools : max_sites[p] > 0 =>
        /\ ClaimsOf(p) <= max_sites[p]
        /\ ClaimsOf(p) >= max_sites[p] => (pc[p] # "loop" /\ pending_records[p] = {})

\* a run with a limit above the batch size has claimed its limit in two
\* batches and has ended
C38_Witness ==
    \E p \in Pools :
        /\ max_sites[p] > BatchSize /\ ClaimsOf(p) = max_sites[p] /\ pc[p] = "done"
        /\ total_processed[p] = max_sites[p]

\* ---- C39: postcode page allocation (SpecPages)
\* C39: no page number is fetched by two workers, the page numbers handed out
\* are 1..n for some n, and while the stop condition holds (stop_scraping or
\* should_terminate is set) no worker obtains a page number.
C39_PageAllocation ==
    /\ [](\A w, v \in PgWorkers : w # v => pg_fetched[w] \cap pg_fetched[v] = {})
    /\ [](pg_handed = 1..Cardinality(pg_handed))
    /\ [][get_stop_scraping =>
            \A w \in PgWorkers : ~(pg_worker[w].pc = "get" /\ pg_worker'[w].pc = "set")]_vars

\* ---- C40: backoff of the connection retries (SpecConn)
\* the base delay of a layer
BaseDelay(l) == IF l = "email" THEN MONGO_RETRY_DELAY_email ELSE MONGO_RETRY_DELAY_googlemaps

\* C40: in both connection layers the delay after failed attempt number
\* attempt (from 0) is base * 2^attempt, so each delay is twice the one before,
\* and the last attempt is followed by no delay: a call that gave up after
\* MONGO_RETRY_ATTEMPTS attempts has slept MONGO_RETRY_ATTEMPTS - 1 times.
C40_ExponentialBackoff ==
    \A l \in Layers :
        /\ \A k \in DOMAIN conn[l].slept : conn[l].slept[k] = BaseDelay(l) * (2 ^ (k - 1))
        /\ \A k \in DOMAIN conn[l].slept : k > 1 => conn[l].slept[k] = 2 * conn[l].slept[k - 1]
        /\ Len(conn[l].slept) = conn[l].attempt
        /\ conn[l].attempt <= MONGO_RETRY_ATTEMPTS - 1

\* both layers have given up after the last attempt, each with two delays
C40_Witness ==
    \A l \in Layers :
        conn[l].pc = "failed" /\ Len(conn[l].slept) = MONGO_RETRY_ATTEMPTS - 1

====
